---- MODULE Spec2Model ----
(***************************************************************************)
(* Blog backend: posts, comments and the API Gateway WebSocket broadcaster. *)
(*                                                                         *)
(* Spec      : the create-comment request (routes/comments.py) running     *)
(*             through CommentApplicationService / CommentService into     *)
(*             the comment repository and then into                        *)
(*             ApiGatewayWebSocketService.broadcast_to_all, interleaved     *)
(*             with $connect / $disconnect events at the broadcaster's      *)
(*             only suspension point (the awaited send).                    *)
(* SpecPosts : PostService over InMemoryPostRepository and BlogPost.        *)
(*                                                                         *)
(* Text values are sequences of one-character strings so that str.strip()  *)
(* is computed, not assumed.                                               *)
(***************************************************************************)
EXTENDS Integers, Sequences, FiniteSets, TLC

\* ------------------------------------------------------------------ bounds
MaxConn == 3       \* connection ids 1..MaxConn
MaxPosts == 1      \* post ids handed out by uuid4, 1..MaxPosts
MaxComments == 1   \* comment ids handed out by uuid4, 1..MaxComments
MaxClock == 2      \* readings of datetime.now(), 0..MaxClock
MaxEvents == 2     \* connect/disconnect events arriving during one broadcast
MaxListed == 3     \* post ids of the listing specification, 1..MaxListed
MaxPage == 3       \* page numbers asked for, up to MaxPage
MaxThread == 3     \* comment ids of the comment-listing specification, 1..MaxThread
MaxCommented == 2  \* post ids of the comment-listing specification, 1..MaxCommented
MaxStored == 2     \* post ids of the repository specification, 1..MaxStored
MaxFavPosts == 2   \* post ids of the favorites specification, 1..MaxFavPosts
MaxLimit == 2      \* page sizes asked for, up to MaxLimit (and the values around the caps)
MaxCallers == 2    \* handle_anonymous_login calls in flight at once, 1..MaxCallers
MaxUserClock == 1  \* readings of the clock in the user specification, 0..MaxUserClock

ConnIds == 1..MaxConn
PostIds == 1..MaxPosts
CommentIds == 1..MaxComments
Users == {<<"u", "1">>, <<"u", "2">>}   \* verified identities (texts)

ListedIds == 1..MaxListed
Callers == 1..MaxCallers

NoTime == -1                  \* Python None where a datetime is expected
NoText == <<"None">>          \* Python None where a str is expected
Absent == [absent |-> TRUE]   \* dict.get() miss / key not in dict

\* ------------------------------------------------------------------ text
IsSpace(ch) == ch = " "

RECURSIVE LStrip(_)
LStrip(s) == IF s = <<>> THEN <<>>
             ELSE IF IsSpace(Head(s)) THEN LStrip(Tail(s)) ELSE s

RECURSIVE RStrip(_)
RStrip(s) == IF s = <<>> THEN <<>>
             ELSE IF IsSpace(s[Len(s)]) THEN RStrip(SubSeq(s, 1, Len(s) - 1)) ELSE s

\* str.strip()
Strip(s) == RStrip(LStrip(s))

\* "not s.strip()"
IsBlank(s) == Strip(s) = <<>>

\* ------------------------------------------------------------------ state
VARIABLES
  posts,                    \* InMemoryPostRepository._posts : id -> BlogPost
  comments,                 \* comment repository contents : id -> Comment
  connections,              \* ApiGatewayWebSocketService.connections
  now,                      \* last reading of datetime.now(timezone.utc)
  nextPostId,               \* next uuid for a post
  nextCommentId,            \* next uuid for a comment
  pc,                       \* position of the create-comment request
  request,                  \* its arguments (id, content, user_id)
  response,                 \* its HTTP outcome
  disconnected_connections, \* broadcast_to_all local
  pending,                  \* members the set iterator has not yielded yet
  iterSize,                 \* set size recorded by the iterator
  sending,                  \* connection of the awaited _send_to_connection
  attempts,                 \* history: delivery attempts per connection
  outcomes,                 \* history: outcomes of the attempts per connection
  startMembers,             \* history: membership when broadcast_to_all began
  interfered,               \* history: membership changes made while the broadcast was suspended
  persisted,                \* history: id of the comment this request saved, or 0
  broadcasted,              \* history: the route called the broadcaster for this request
  raised,                   \* exception kind that ended the request, or "none"
  last,                     \* history: the PostService call of the last step (none for a tick)
  favorites,                \* InMemoryFavoriteRepository._data : user -> favorited ids, oldest first
  reply,                    \* what the read operation called last handed to its caller
  users,                    \* users table : firebase_uid -> item
  logins,                   \* position of each handle_anonymous_login call in flight
  writer                    \* frame of the PostService call in flight between its find_by_id and its save

vars == <<posts, comments, connections, now, nextPostId, nextCommentId, pc,
          request, response, disconnected_connections, pending, iterSize,
          sending, attempts, outcomes, startMembers, interfered, persisted,
          broadcasted, raised, last, favorites, reply, users, logins, writer>>

postVars == <<posts, nextPostId, last>>
reqVars == <<pc, request, response, persisted, broadcasted, raised>>
bcVars == <<disconnected_connections, pending, iterSize, sending, attempts,
            outcomes, startMembers, interfered>>
userVars == <<users, logins>>
qVars == <<favorites, reply, userVars, writer>>

NoRequest == [post_id |-> 0, content |-> <<>>, user_id |-> NoText]
NoCall == [op |-> "none", post_id |-> 0, user_id |-> NoText, status |-> "", result |-> "none"]
NoReply == [op |-> "none"]
NoLogin == [at |-> "idle"]
NoWriter == [at |-> "idle"]

InitRest ==
  /\ connections = {}
  /\ now = 0
  /\ nextPostId = 1
  /\ nextCommentId = 1
  /\ pc = "idle"
  /\ request = NoRequest
  /\ response = "none"
  /\ disconnected_connections = {}
  /\ pending = {}
  /\ iterSize = 0
  /\ sending = 0
  /\ attempts = [c \in ConnIds |-> 0]
  /\ outcomes = [c \in ConnIds |-> {}]
  /\ startMembers = {}
  /\ interfered = 0
  /\ persisted = 0
  /\ broadcasted = FALSE
  /\ raised = "none"
  /\ last = NoCall
  /\ favorites = [u \in Users |-> <<>>]
  /\ reply = NoReply
  /\ users = [uid \in Users |-> Absent]
  /\ logins = [c \in Callers |-> NoLogin]
  /\ writer = NoWriter

Init ==
  /\ posts = [i \in PostIds |-> Absent]
  /\ comments = [i \in CommentIds |-> Absent]
  /\ InitRest

\* ------------------------------------------------------------------ clock
\* A reading of datetime.now() taken after a reading t: time does not go
\* back, and may or may not have advanced.
Reads(t) == {u \in t..MaxClock : u <= t + 1}

\* ------------------------------------------------------------------ BlogPost
DRAFT == "draft"
PUBLISHED == "published"

\* BlogPost.__post_init__ applied to the constructor arguments: validation,
\* trimming, default timestamps.
post_init(id, title, content, excerpt, author, published_at, status, created_at, updated_at, t) ==
  IF IsBlank(title) \/ IsBlank(content) \/ IsBlank(excerpt) \/ IsBlank(author)
  THEN [ok |-> FALSE, exc |-> "ValueError"]
  ELSE [ok |-> TRUE,
        post |-> [id |-> id,
                  title |-> Strip(title),
                  content |-> Strip(content),
                  excerpt |-> Strip(excerpt),
                  author |-> Strip(author),
                  published_at |-> published_at,
                  status |-> status,
                  created_at |-> IF created_at = NoTime THEN t ELSE created_at,
                  updated_at |-> IF updated_at = NoTime THEN t ELSE updated_at]]

\* BlogPost.create_new(title, content, excerpt, author, status): a new id and
\* the constructor; a post asked to be published is created Published with
\* its publication time.
create_new(id, title, content, excerpt, author, status, t) ==
  post_init(id, title, content, excerpt, author,
            IF status = PUBLISHED THEN t ELSE NoTime,
            IF status = PUBLISHED THEN PUBLISHED ELSE DRAFT,
            NoTime, NoTime, t)

\* Variant: publish without the already-published guard.
publish_unguarded(post, t1, t2) ==
  [ok |-> TRUE, exc |-> "none",
   post |-> [post EXCEPT !.status = PUBLISHED, !.published_at = t1, !.updated_at = t2]]

\* BlogPost.publish
publish(post, t1, t2) ==
  IF post.status = PUBLISHED
  THEN [ok |-> FALSE, exc |-> "ValueError", post |-> post]
  ELSE [ok |-> TRUE, exc |-> "none",
        post |-> [post EXCEPT !.status = PUBLISHED, !.published_at = t1, !.updated_at = t2]]

\* Variant: unpublish keeps the publication time.
unpublish_keeps_time(post, t) ==
  IF post.status = DRAFT
  THEN [ok |-> FALSE, exc |-> "ValueError", post |-> post]
  ELSE [ok |-> TRUE, exc |-> "none",
        post |-> [post EXCEPT !.status = DRAFT, !.updated_at = t]]

\* BlogPost.unpublish
unpublish(post, t) ==
  IF post.status = DRAFT
  THEN [ok |-> FALSE, exc |-> "ValueError", post |-> post]
  ELSE [ok |-> TRUE, exc |-> "none",
        post |-> [post EXCEPT !.status = DRAFT, !.published_at = NoTime, !.updated_at = t]]

\* Variant: the given values are assigned as they come, untrimmed.
update_content_untrimmed(post, title, content, excerpt, t) ==
  LET p1 == IF title # NoText /\ ~IsBlank(title)
            THEN [post EXCEPT !.title = title] ELSE post
      p2 == IF content # NoText /\ ~IsBlank(content)
            THEN [p1 EXCEPT !.content = content] ELSE p1
      p3 == IF excerpt # NoText /\ ~IsBlank(excerpt)
            THEN [p2 EXCEPT !.excerpt = excerpt] ELSE p2
  IN  IF title # NoText /\ IsBlank(title)
      THEN [ok |-> FALSE, exc |-> "ValueError", post |-> post]
      ELSE IF content # NoText /\ IsBlank(content)
      THEN [ok |-> FALSE, exc |-> "ValueError", post |-> p1]
      ELSE IF excerpt # NoText /\ IsBlank(excerpt)
      THEN [ok |-> FALSE, exc |-> "ValueError", post |-> p2]
      ELSE [ok |-> TRUE, exc |-> "none", post |-> [p3 EXCEPT !.updated_at = t]]

\* BlogPost.update_content: the fields are assigned one after the other on
\* the object itself, so a failure on a later field keeps the earlier ones.
update_content(post, title, content, excerpt, t) ==
  LET p1 == IF title # NoText /\ ~IsBlank(title)
            THEN [post EXCEPT !.title = Strip(title)] ELSE post
      p2 == IF content # NoText /\ ~IsBlank(content)
            THEN [p1 EXCEPT !.content = Strip(content)] ELSE p1
      p3 == IF excerpt # NoText /\ ~IsBlank(excerpt)
            THEN [p2 EXCEPT !.excerpt = Strip(excerpt)] ELSE p2
  IN  IF title # NoText /\ IsBlank(title)
      THEN [ok |-> FALSE, exc |-> "ValueError", post |-> post]
      ELSE IF content # NoText /\ IsBlank(content)
      THEN [ok |-> FALSE, exc |-> "ValueError", post |-> p1]
      ELSE IF excerpt # NoText /\ IsBlank(excerpt)
      THEN [ok |-> FALSE, exc |-> "ValueError", post |-> p2]
      ELSE [ok |-> TRUE, exc |-> "none", post |-> [p3 EXCEPT !.updated_at = t]]

\* BlogPost.is_published
is_published(post) == post.status = PUBLISHED

\* Variant: anyone may update.
can_be_updated_by_anyone(post, user_id) == TRUE

\* BlogPost.can_be_updated_by
can_be_updated_by(post, user_id) == post.author = user_id

\* BlogPost.can_be_deleted_by
can_be_deleted_by(post, user_id) == post.author = user_id

\* ------------------------------------------------------------------ InMemoryPostRepository
\* Variant: the post is stored with the updated_at it came with.
save_as_given(repo, post, t) == [repo EXCEPT ![post.id] = post]

\* Variant: an id that is already stored keeps its old entry.
save_insert_only(repo, post, t) ==
  IF repo[post.id] # Absent THEN repo
  ELSE [repo EXCEPT ![post.id] = [post EXCEPT !.updated_at = t]]

\* save: refresh updated_at, store under the post's id
save(repo, post, t) == [repo EXCEPT ![post.id] = [post EXCEPT !.updated_at = t]]

\* find_by_id: the stored object itself, or None
find_by_id(repo, post_id) == IF post_id \in DOMAIN repo THEN repo[post_id] ELSE Absent

\* Variant: the membership test is the wrong way round, nothing is removed.
delete_unless_present(repo, post_id) == repo

\* delete
delete(repo, post_id) ==
  IF post_id \in DOMAIN repo /\ repo[post_id] # Absent
  THEN [repo EXCEPT ![post_id] = Absent] ELSE repo

\* Variant: every id is reported as existing.
exists_always(repo, post_id) == TRUE

\* exists_by_id
exists_by_id(repo, post_id) == post_id \in DOMAIN repo /\ repo[post_id] # Absent

\* ------------------------------------------------------------------ PostService
\* Each call reads the clock inside the entity (the reading is `now`; time
\* that passed before it is a Tick) and once more in the repository's save
\* (a reading t in Reads(now)).
Called(op, post_id, user_id, status, result) ==
  [op |-> op, post_id |-> post_id, user_id |-> user_id, status |-> status, result |-> result]

\* PostService.create_post
CreatePost(title, content, excerpt, author, status, t2) ==
  /\ nextPostId \in DOMAIN posts
  /\ t2 \in Reads(now)
  /\ LET r == create_new(nextPostId, title, content, excerpt, author, status, now)
     IN  IF r.ok
         THEN /\ posts' = save(posts, r.post, t2)
              /\ nextPostId' = nextPostId + 1
              /\ now' = t2
              /\ last' = Called("create_post", nextPostId, author, status, "ok")
         ELSE /\ last' = Called("create_post", 0, author, status, r.exc)
              /\ UNCHANGED <<posts, nextPostId, now>>
  /\ UNCHANGED <<qVars, comments, connections, nextCommentId, reqVars, bcVars>>

\* PostService.update_post.  find_by_id hands out the stored object, so what
\* update_content assigned before raising is already in the repository.
UpdatePost(post_id, user_id, title, content, excerpt, t2) ==
  /\ t2 \in Reads(now)
  /\ LET post == find_by_id(posts, post_id)
     IN  IF post = Absent
         THEN /\ last' = Called("update_post", post_id, user_id, "", "PostNotFoundError")
              /\ UNCHANGED <<posts, now>>
         ELSE IF ~can_be_updated_by(post, user_id)
         THEN /\ last' = Called("update_post", post_id, user_id, "", "UnauthorizedPostAccessError")
              /\ UNCHANGED <<posts, now>>
         ELSE LET r == update_content(post, title, content, excerpt, now)
              IN  IF r.ok
                  THEN /\ posts' = save(posts, r.post, t2)
                       /\ now' = t2
                       /\ last' = Called("update_post", post_id, user_id, "", "ok")
                  ELSE /\ posts' = [posts EXCEPT ![post_id] = r.post]
                       /\ last' = Called("update_post", post_id, user_id, "", r.exc)
                       /\ UNCHANGED now
  /\ UNCHANGED <<qVars, nextPostId, comments, connections, nextCommentId, reqVars, bcVars>>

\* PostService.publish_post
PublishPost(post_id, user_id, t3) ==
  /\ t3 \in Reads(now)
  /\ LET post == find_by_id(posts, post_id)
     IN  IF post = Absent
         THEN /\ last' = Called("publish_post", post_id, user_id, "", "PostNotFoundError")
              /\ UNCHANGED <<posts, now>>
         ELSE IF ~can_be_updated_by(post, user_id)
         THEN /\ last' = Called("publish_post", post_id, user_id, "", "UnauthorizedPostAccessError")
              /\ UNCHANGED <<posts, now>>
         ELSE LET r == publish(post, now, now)
              IN  IF r.ok
                  THEN /\ posts' = save(posts, r.post, t3)
                       /\ now' = t3
                       /\ last' = Called("publish_post", post_id, user_id, "", "ok")
                  ELSE /\ posts' = [posts EXCEPT ![post_id] = r.post]
                       /\ last' = Called("publish_post", post_id, user_id, "", r.exc)
                       /\ UNCHANGED now
  /\ UNCHANGED <<qVars, nextPostId, comments, connections, nextCommentId, reqVars, bcVars>>

\* PostService.unpublish_post
UnpublishPost(post_id, user_id, t2) ==
  /\ t2 \in Reads(now)
  /\ LET post == find_by_id(posts, post_id)
     IN  IF post = Absent
         THEN /\ last' = Called("unpublish_post", post_id, user_id, "", "PostNotFoundError")
              /\ UNCHANGED <<posts, now>>
         ELSE IF ~can_be_updated_by(post, user_id)
         THEN /\ last' = Called("unpublish_post", post_id, user_id, "", "UnauthorizedPostAccessError")
              /\ UNCHANGED <<posts, now>>
         ELSE LET r == unpublish(post, now)
              IN  IF r.ok
                  THEN /\ posts' = save(posts, r.post, t2)
                       /\ now' = t2
                       /\ last' = Called("unpublish_post", post_id, user_id, "", "ok")
                  ELSE /\ posts' = [posts EXCEPT ![post_id] = r.post]
                       /\ last' = Called("unpublish_post", post_id, user_id, "", r.exc)
                       /\ UNCHANGED now
  /\ UNCHANGED <<qVars, nextPostId, comments, connections, nextCommentId, reqVars, bcVars>>

\* PostService.delete_post
DeletePost(post_id, user_id) ==
  /\ LET post == find_by_id(posts, post_id)
     IN  IF post = Absent
         THEN /\ last' = Called("delete_post", post_id, user_id, "", "PostNotFoundError")
              /\ UNCHANGED posts
         ELSE IF ~can_be_deleted_by(post, user_id)
         THEN /\ last' = Called("delete_post", post_id, user_id, "", "UnauthorizedPostAccessError")
              /\ UNCHANGED posts
         ELSE /\ posts' = delete(posts, post_id)
              /\ last' = Called("delete_post", post_id, user_id, "", "ok")
  /\ UNCHANGED <<qVars, now, nextPostId, comments, connections, nextCommentId, reqVars, bcVars>>

\* PostService.get_post_by_id: the post, or PostNotFoundError
get_post_by_id(repo, post_id) ==
  LET post == find_by_id(repo, post_id)
  IN  IF post = Absent THEN [ok |-> FALSE, exc |-> "PostNotFoundError"]
      ELSE [ok |-> TRUE, exc |-> "none", post |-> post]

\* PostApplicationService._post_to_dict.  isoformat() of a time is written
\* <<"iso", t>>; a missing time becomes None (NoText).
isoformat(t) == <<"iso", t>>

\* Variant: the publication time is left out of the dict.
post_to_dict_no_time(post) ==
  [id |-> post.id, title |-> post.title, content |-> post.content,
   excerpt |-> post.excerpt, author |-> post.author,
   publishedAt |-> NoText,
   status |-> post.status,
   createdAt |-> IF post.created_at # NoTime THEN isoformat(post.created_at) ELSE NoText,
   updatedAt |-> IF post.updated_at # NoTime THEN isoformat(post.updated_at) ELSE NoText]

post_to_dict(post) ==
  [id |-> post.id, title |-> post.title, content |-> post.content,
   excerpt |-> post.excerpt, author |-> post.author,
   publishedAt |-> IF post.published_at # NoTime THEN isoformat(post.published_at) ELSE NoText,
   status |-> post.status,
   createdAt |-> IF post.created_at # NoTime THEN isoformat(post.created_at) ELSE NoText,
   updatedAt |-> IF post.updated_at # NoTime THEN isoformat(post.updated_at) ELSE NoText]

\* The clock advances between calls.
Tick ==
  /\ now < MaxClock
  /\ now' = now + 1
  /\ last' = NoCall
  /\ UNCHANGED <<qVars, posts, nextPostId, comments, connections, nextCommentId, reqVars, bcVars>>

\* ------------------------------------------------------------------ inputs
StatusInputs == {DRAFT, PUBLISHED}

\* <<title, content, excerpt>> of a create request
CreateInputs == {<<<<"a">>, <<"c", " ">>, <<"e">>>>,
                 <<<<" ", "b">>, <<"c">>, <<"e">>>>,
                 <<<<" ">>, <<"c">>, <<"e">>>>,
                 <<<<"a">>, <<>>, <<"e">>>>,
                 <<<<"a">>, <<"c">>, <<" ", " ">>>>}

\* author of a create request: a verified identity, or a text the
\* constructor has to trim or to refuse
AuthorInputs == Users \cup {<<" ">>, <<"u", "1", " ">>}

\* <<title, content, excerpt>> of an update request; NoText = not given
UpdateInputs == {<<<<"a">>, NoText, NoText>>,
                 <<<<" ", "b">>, NoText, NoText>>,
                 <<<<" ">>, NoText, NoText>>,
                 <<NoText, <<"c", " ">>, <<"e">>>>,
                 <<<<"b">>, <<" ">>, NoText>>,
                 <<NoText, NoText, NoText>>}

NextPosts ==
  \/ \E in \in CreateInputs, author \in AuthorInputs, status \in StatusInputs, t \in 0..MaxClock :
       CreatePost(in[1], in[2], in[3], author, status, t)
  \/ \E post_id \in PostIds, user_id \in Users, in \in UpdateInputs, t \in 0..MaxClock :
       UpdatePost(post_id, user_id, in[1], in[2], in[3], t)
  \/ \E post_id \in PostIds, user_id \in Users, t \in 0..MaxClock :
       PublishPost(post_id, user_id, t)
  \/ \E post_id \in PostIds, user_id \in Users, t \in 0..MaxClock :
       UnpublishPost(post_id, user_id, t)
  \/ \E post_id \in PostIds, user_id \in Users : DeletePost(post_id, user_id)
  \/ Tick

SpecPosts == Init /\ [][NextPosts]_vars

\* Creating and editing only: every create and update request, each with
\* both readings its save can take of the clock.
NextCreate ==
  \/ \E in \in CreateInputs, author \in AuthorInputs, status \in StatusInputs, t \in Reads(now) :
       CreatePost(in[1], in[2], in[3], author, status, t)
  \/ \E post_id \in PostIds, user_id \in Users, in \in UpdateInputs :
       UpdatePost(post_id, user_id, in[1], in[2], in[3], now)
  \/ Tick

SpecCreate == Init /\ [][NextCreate]_vars

\* ------------------------------------------------------------------ PostService calls in two steps
\* update_post, publish_post and unpublish_post read the post, change the
\* object and save it; between the read and the save another request (of
\* another worker on the same table) may run.
WriterOps == {"update_post", "publish_post", "unpublish_post"}

\* The entity method the call applies to the post it found.
Mutation(op, post, in, t) ==
  CASE op = "update_post" -> update_content(post, in[1], in[2], in[3], t)
    [] op = "publish_post" -> publish(post, t, t)
    [] op = "unpublish_post" -> unpublish(post, t)

\* From the entry of the call to the return of find_by_id and the
\* permission check.
WriterFind(op, post_id, user_id, in) ==
  /\ writer = NoWriter
  /\ LET post == find_by_id(posts, post_id)
     IN  IF post = Absent
         THEN /\ last' = Called(op, post_id, user_id, "", "PostNotFoundError")
              /\ UNCHANGED writer
         ELSE IF ~can_be_updated_by(post, user_id)
         THEN /\ last' = Called(op, post_id, user_id, "", "UnauthorizedPostAccessError")
              /\ UNCHANGED writer
         ELSE /\ writer' = [at |-> "found", op |-> op, post_id |-> post_id,
                            user_id |-> user_id, in |-> in, post |-> post]
              /\ last' = NoCall
  /\ UNCHANGED <<favorites, reply, userVars, posts, now, nextPostId, comments, connections,
                 nextCommentId, reqVars, bcVars>>

\* The rest of the call: the entity method, then the repository's save of
\* the object the call holds.
WriterSave(t2) ==
  /\ writer # NoWriter
  /\ t2 \in Reads(now)
  /\ LET r == Mutation(writer.op, writer.post, writer.in, now)
     IN  IF r.ok
         THEN /\ posts' = save(posts, r.post, t2)
              /\ now' = t2
              /\ last' = Called(writer.op, writer.post_id, writer.user_id, "", "ok")
         ELSE /\ posts' = IF exists_by_id(posts, writer.post_id)
                          THEN [posts EXCEPT ![writer.post_id] = r.post] ELSE posts
              /\ last' = Called(writer.op, writer.post_id, writer.user_id, "", r.exc)
              /\ UNCHANGED now
  /\ writer' = NoWriter
  /\ UNCHANGED <<favorites, reply, userVars, nextPostId, comments, connections,
                 nextCommentId, reqVars, bcVars>>

RaceInputs == {<<<<"a">>, NoText, NoText>>, <<NoText, <<" ">>, NoText>>}

NextRace ==
  \/ \E author \in Users, status \in StatusInputs, t \in Reads(now) :
       CreatePost(<<"t">>, <<"c">>, <<"e">>, author, status, t)
  \/ \E post_id \in PostIds, user_id \in Users, in \in RaceInputs :
       WriterFind("update_post", post_id, user_id, in)
  \/ \E op \in WriterOps \ {"update_post"}, post_id \in PostIds, user_id \in Users :
       WriterFind(op, post_id, user_id, <<NoText, NoText, NoText>>)
  \/ \E t \in Reads(now) : WriterSave(t)
  \/ \E post_id \in PostIds, user_id \in Users : DeletePost(post_id, user_id)
  \/ Tick

SpecRace == Init /\ [][NextRace]_vars

\* ------------------------------------------------------------------ Comment
\* Comment.create_new / Comment.__post_init__ (the ids handed to it here are
\* never blank): validation, trimming, creation time.
comment_create_new(id, content, user_id, post_id, t) ==
  IF IsBlank(content) \/ IsBlank(user_id)
  THEN [ok |-> FALSE, exc |-> "ValueError"]
  ELSE [ok |-> TRUE, exc |-> "none",
        comment |-> [id |-> id, content |-> Strip(content), user_id |-> Strip(user_id),
                     post_id |-> post_id, created_at |-> t]]

\* Variant: save swallows the storage failure.
SaveSwallows(storage_ok) == FALSE

\* Comment repository save: put_item either stores the item or fails, and a
\* failure is raised to the caller (the in-memory store never fails).
SaveRaises(storage_ok) == ~storage_ok

\* CommentApplicationService.create_comment, the except clauses: the
\* application error a domain-level exception becomes.
TranslateCommentError(exc) ==
  IF exc = "PostNotFoundError" THEN "NotFoundError"
  ELSE IF exc \in {"ValueError", "CommentValidationError"} THEN "ValidationError"
  ELSE "ApplicationError"

\* routes/comments.py create_comment, the except clauses: the HTTP status of
\* an exception; what no clause names leaves the handler unhandled.
RouteStatus(exc) ==
  IF exc \in {"PostNotFoundError", "NotFoundError"} THEN "404"
  ELSE IF exc \in {"ValidationError", "CommentValidationError"} THEN "400"
  ELSE IF exc = "AuthenticationError" THEN "401"
  ELSE IF exc = "ApplicationError" THEN "500"
  ELSE "unhandled"

\* ------------------------------------------------------------------ broadcaster
Outcomes == {"ok", "gone", "error"}   \* of post_to_connection: sent, GoneException, another exception

\* Variant: only a GoneException marks the connection for removal.
HandleOutcomeGoneOnly(disc, connection_id, outcome) ==
  IF outcome = "gone" THEN disc \cup {connection_id} ELSE disc

\* broadcast_to_all, the except clauses of one attempt: the connections
\* marked for removal after an attempt on connection_id ended with outcome.
HandleOutcome(disc, connection_id, outcome) ==
  IF outcome = "ok" THEN disc
  ELSE IF outcome = "gone" THEN disc \cup {connection_id}
  ELSE disc \cup {connection_id}

\* Variant: the first failed attempt ends the loop.
AfterAttemptAbort(pend, outcome) == IF outcome = "ok" THEN pend ELSE {}

\* broadcast_to_all, the try inside the for: whatever the outcome, the loop
\* goes on with the members not yet visited.
AfterAttempt(pend, outcome) == pend

\* Variant: the marked connections are never removed.
CleanupSkipped(conns, disc) == conns

\* broadcast_to_all, "Clean up disconnected clients"
Cleanup(conns, disc) == IF disc # {} THEN conns \ disc ELSE conns

\* The for statement asks the set iterator for the next member.  The
\* iterator raises RuntimeError when the set's size differs from the size it
\* recorded; nothing in broadcast_to_all or in the route catches that.  When
\* the members are exhausted the clean-up runs and the route answers 201.
IterNext(size, disc, pend) ==
  /\ iterSize' = size
  /\ disconnected_connections' = disc
  /\ IF Cardinality(connections) # size
     THEN /\ raised' = "RuntimeError"
          /\ response' = RouteStatus("RuntimeError")
          /\ pc' = "responded"
          /\ sending' = 0
          /\ pending' = pend
          /\ UNCHANGED connections
     ELSE IF pend = {}
     THEN /\ connections' = Cleanup(connections, disc)
          /\ raised' = "none"
          /\ response' = "201"
          /\ pc' = "responded"
          /\ sending' = 0
          /\ pending' = {}
     ELSE \E connection_id \in pend :
            /\ sending' = connection_id
            /\ pending' = pend \ {connection_id}
            /\ pc' = "sending"
            /\ UNCHANGED <<connections, raised, response>>

\* add_connection ($connect).  While a broadcast is suspended on a send, a
\* new member may land before or behind the iterator's position.
Connect(connection_id) ==
  /\ pc = "sending" => interfered < MaxEvents
  /\ connections' = connections \cup {connection_id}
  /\ IF pc = "sending" /\ connection_id \notin connections
     THEN /\ interfered' = interfered + 1
          /\ pending' \in {pending, pending \cup {connection_id}}
     ELSE UNCHANGED <<interfered, pending>>
  /\ UNCHANGED <<qVars, postVars, now, comments, nextCommentId, reqVars,
                 disconnected_connections, iterSize, sending, attempts, outcomes,
                 startMembers>>

\* remove_connection written with clear() in place of discard(connection_id)
DisconnectClears(connection_id) ==
  /\ pc = "sending" => interfered < MaxEvents
  /\ connections' = {}
  /\ IF pc = "sending" /\ connection_id \in connections
     THEN /\ interfered' = interfered + 1
          /\ pending' = {}
     ELSE UNCHANGED <<interfered, pending>>
  /\ UNCHANGED <<qVars, postVars, now, comments, nextCommentId, reqVars,
                 disconnected_connections, iterSize, sending, attempts, outcomes,
                 startMembers>>

\* remove_connection ($disconnect)
Disconnect(connection_id) ==
  /\ pc = "sending" => interfered < MaxEvents
  /\ connections' = connections \ {connection_id}
  /\ IF pc = "sending" /\ connection_id \in connections
     THEN /\ interfered' = interfered + 1
          /\ pending' = pending \ {connection_id}
     ELSE UNCHANGED <<interfered, pending>>
  /\ UNCHANGED <<qVars, postVars, now, comments, nextCommentId, reqVars,
                 disconnected_connections, iterSize, sending, attempts, outcomes,
                 startMembers>>

\* ------------------------------------------------------------------ create-comment request
\* The route calls CommentApplicationService.create_comment, which calls
\* CommentService.create_comment: first the existence check of the post.
CreateCommentRequest(post_id, content, user_id) ==
  /\ pc = "idle"
  /\ nextCommentId \in DOMAIN comments
  /\ request' = [post_id |-> post_id, content |-> content, user_id |-> user_id]
  /\ IF ~exists_by_id(posts, post_id)
     THEN /\ raised' = TranslateCommentError("PostNotFoundError")
          /\ response' = RouteStatus(TranslateCommentError("PostNotFoundError"))
          /\ pc' = "responded"
     ELSE /\ pc' = "checked"
          /\ UNCHANGED <<raised, response>>
  /\ UNCHANGED <<qVars, postVars, now, comments, connections, nextCommentId, persisted,
                 broadcasted, bcVars>>

\* CommentService.create_comment after the check: the factory, then the
\* repository's save; the application service translates what is raised.
CreateCommentSave(storage_ok) ==
  /\ pc = "checked"
  /\ LET r == comment_create_new(nextCommentId, request.content, request.user_id,
                                 request.post_id, now)
     IN  IF ~r.ok
         THEN /\ raised' = TranslateCommentError(r.exc)
              /\ response' = RouteStatus(TranslateCommentError(r.exc))
              /\ pc' = "responded"
              /\ UNCHANGED <<comments, nextCommentId, persisted>>
         ELSE IF SaveRaises(storage_ok)
         THEN /\ raised' = TranslateCommentError("Exception")
              /\ response' = RouteStatus(TranslateCommentError("Exception"))
              /\ pc' = "responded"
              /\ UNCHANGED <<comments, nextCommentId, persisted>>
         ELSE /\ comments' = IF storage_ok THEN [comments EXCEPT ![nextCommentId] = r.comment]
                             ELSE comments
              /\ persisted' = IF storage_ok THEN nextCommentId ELSE 0
              /\ nextCommentId' = nextCommentId + 1
              /\ pc' = "saved"
              /\ UNCHANGED <<raised, response>>
  /\ UNCHANGED <<qVars, postVars, now, connections, request, broadcasted, bcVars>>

\* broadcast_to_all from its entry to its first awaited send: nothing to do
\* without members; otherwise the loop starts over the membership set.
BroadcastToAllBegin ==
  IF connections = {}
  THEN /\ response' = "201"
       /\ pc' = "responded"
       /\ UNCHANGED <<connections, raised, disconnected_connections, pending,
                      iterSize, sending, startMembers>>
  ELSE /\ startMembers' = connections
       /\ IterNext(Cardinality(connections), {}, connections)

\* The route hands the saved comment to the broadcaster
\* (broadcast_new_comment), which wraps it in a message and passes it to
\* broadcast_to_all as broadcast_comments_list and broadcast_comment_update do.
BroadcastNewComment ==
  /\ pc = "saved"
  /\ broadcasted' = TRUE
  /\ BroadcastToAllBegin
  /\ UNCHANGED <<qVars, postVars, now, comments, nextCommentId, request, persisted,
                 attempts, outcomes, interfered>>

\* The awaited _send_to_connection ends with an outcome; the loop goes on
\* to the next member, or ends.
SendReturn(outcome) ==
  /\ pc = "sending"
  /\ attempts' = [attempts EXCEPT ![sending] = @ + 1]
  /\ outcomes' = [outcomes EXCEPT ![sending] = @ \cup {outcome}]
  /\ IterNext(iterSize,
              HandleOutcome(disconnected_connections, sending, outcome),
              AfterAttempt(pending, outcome))
  /\ UNCHANGED <<qVars, postVars, now, comments, nextCommentId, request, persisted,
                 broadcasted, startMembers, interfered>>

\* The response is sent and the handler's frame is gone.
RequestReturn ==
  /\ pc = "responded"
  /\ pc' = "idle"
  /\ request' = NoRequest
  /\ response' = "none"
  /\ raised' = "none"
  /\ persisted' = 0
  /\ broadcasted' = FALSE
  /\ disconnected_connections' = {}
  /\ pending' = {}
  /\ iterSize' = 0
  /\ sending' = 0
  /\ attempts' = [c \in ConnIds |-> 0]
  /\ outcomes' = [c \in ConnIds |-> {}]
  /\ startMembers' = {}
  /\ interfered' = 0
  /\ UNCHANGED <<qVars, postVars, now, comments, nextCommentId, connections>>

CommentInputs == {<<"n">>, <<" ">>}
Author == <<"u", "1">>
Commenter == <<"u", "2">>

Next ==
  \/ CreatePost(<<"a">>, <<"c">>, <<"e">>, Author, PUBLISHED, now)
  \/ \E post_id \in PostIds : DeletePost(post_id, Author)
  \/ \E post_id \in PostIds, content \in CommentInputs :
       CreateCommentRequest(post_id, content, Commenter)
  \/ \E storage_ok \in BOOLEAN : CreateCommentSave(storage_ok)
  \/ BroadcastNewComment
  \/ \E outcome \in Outcomes : SendReturn(outcome)
  \/ RequestReturn
  \/ \E connection_id \in ConnIds : Connect(connection_id)
  \/ \E connection_id \in ConnIds : Disconnect(connection_id)

Spec == Init /\ [][Next]_vars

\* ------------------------------------------------------------------ listings
\* Python truth value of an Optional[str]: None and "" are false.
Truthy(text) == text # NoText /\ text # <<>>

\* dict.values(): the stored posts in insertion order.  Ids are handed out in
\* increasing order and a key saved again keeps its place, so insertion
\* order is id order.
RECURSIVE values_upto(_, _)
values_upto(repo, n) ==
  IF n = 0 THEN <<>>
  ELSE IF n \in DOMAIN repo /\ repo[n] # Absent
       THEN Append(values_upto(repo, n - 1), repo[n])
       ELSE values_upto(repo, n - 1)

values(repo) == values_upto(repo, Cardinality(DOMAIN repo))

\* One step of the stable descending sort: x goes behind every element whose
\* key is not smaller than its own.
RECURSIVE insert_desc(_, _, _)
insert_desc(sorted, x, field) ==
  IF sorted = <<>> THEN <<x>>
  ELSE IF Head(sorted)[field] >= x[field]
       THEN <<Head(sorted)>> \o insert_desc(Tail(sorted), x, field)
       ELSE <<x>> \o sorted

\* list.sort(key=lambda p: p.<field> or datetime.min, reverse=True): stable,
\* a missing time (NoTime) sorts as the smallest.
RECURSIVE sort_desc(_, _)
sort_desc(list, field) ==
  IF list = <<>> THEN <<>>
  ELSE insert_desc(sort_desc(SubSeq(list, 1, Len(list) - 1), field), list[Len(list)], field)

\* list[start_idx:end_idx] for indexes that are not negative
slice(list, start_idx, end_idx) ==
  SubSeq(list, start_idx + 1, IF end_idx < Len(list) THEN end_idx ELSE Len(list))

\* Variant: the page starts one page too far.
find_published_skips_a_page(repo, page, limit, author) ==
  LET published == SelectSeq(values(repo), LAMBDA post : post.status = PUBLISHED)
      filtered == IF Truthy(author)
                  THEN SelectSeq(published, LAMBDA post : post.author = author)
                  ELSE published
      sorted == sort_desc(filtered, "published_at")
      start_idx == page * limit
      end_idx == start_idx + limit
  IN  slice(sorted, start_idx, end_idx)

\* InMemoryPostRepository.find_published
find_published(repo, page, limit, author) ==
  LET published == SelectSeq(values(repo), LAMBDA post : post.status = PUBLISHED)
      filtered == IF Truthy(author)
                  THEN SelectSeq(published, LAMBDA post : post.author = author)
                  ELSE published
      sorted == sort_desc(filtered, "published_at")
      start_idx == (page - 1) * limit
      end_idx == start_idx + limit
  IN  slice(sorted, start_idx, end_idx)

NoStatus == "none"   \* Python None where a PostStatus is expected

\* InMemoryPostRepository.find_by_author_with_pagination
find_by_author_with_pagination(repo, author, page, limit, status) ==
  LET by_author == SelectSeq(values(repo), LAMBDA post : post.author = author)
      filtered == IF status # NoStatus
                  THEN SelectSeq(by_author, LAMBDA post : post.status = status)
                  ELSE by_author
      sorted == sort_desc(filtered, "created_at")
      start_idx == (page - 1) * limit
      end_idx == start_idx + limit
  IN  slice(sorted, start_idx, end_idx)

DefaultLimit == 10    \* "limit = 10"
MaxPostsLimit == 50   \* "limit > 50"

\* Variant: a limit above the cap becomes the cap.
clamp_limit_to_cap(limit) ==
  IF limit < 1 THEN DefaultLimit ELSE IF limit > MaxPostsLimit THEN MaxPostsLimit ELSE limit

\* PostService.get_published_posts / get_posts_by_author_with_pagination,
\* the two ifs in front of the repository call
clamp_page(page) == IF page < 1 THEN 1 ELSE page
clamp_limit(limit) == IF limit < 1 \/ limit > MaxPostsLimit THEN DefaultLimit ELSE limit

\* PostService.get_published_posts: the arguments the repository is called
\* with, and what it returns
get_published_posts(repo, page, limit, author) ==
  [page |-> clamp_page(page), limit |-> clamp_limit(limit),
   data |-> find_published(repo, clamp_page(page), clamp_limit(limit), author)]

\* PostService.get_posts_by_author_with_pagination
get_posts_by_author_with_pagination(repo, author, page, limit, status) ==
  [page |-> clamp_page(page), limit |-> clamp_limit(limit),
   data |-> find_by_author_with_pagination(repo, author, clamp_page(page),
                                           clamp_limit(limit), status)]

\* PostApplicationService._post_to_summary_dict
post_to_summary_dict(post) ==
  [id |-> post.id, title |-> post.title, excerpt |-> post.excerpt, author |-> post.author,
   publishedAt |-> IF post.published_at # NoTime THEN isoformat(post.published_at) ELSE NoText,
   status |-> post.status]

summaries(list) == [k \in 1..Len(list) |-> post_to_summary_dict(list[k])]

\* "total_count = len(post_summaries) if len(post_summaries) < limit else limit * page"
total_count(post_summaries, page, limit) ==
  IF Len(post_summaries) < limit THEN Len(post_summaries) ELSE limit * page

\* routes: "has_next = (current_page * limit) < total"
has_next(current_page, limit, total) == current_page * limit < total

\* PostApplicationService.get_posts
get_posts(repo, page, limit, status, author) ==
  LET status1 == IF status \notin StatusInputs THEN PUBLISHED ELSE status
      found == IF status1 = PUBLISHED
               THEN get_published_posts(repo, page, limit, author).data
               ELSE <<>>
      post_summaries == summaries(found)
      total == IF status1 = PUBLISHED THEN total_count(post_summaries, page, limit) ELSE 0
  IN  [data |-> post_summaries,
       pagination |-> [page |-> page, limit |-> limit, total |-> total]]

\* PostApplicationService.get_user_posts
get_user_posts(repo, user_id, page, limit, status) ==
  LET status_filter == IF status = PUBLISHED THEN PUBLISHED
                       ELSE IF status = DRAFT THEN DRAFT ELSE NoStatus
      found == get_posts_by_author_with_pagination(repo, user_id, page, limit, status_filter).data
      post_summaries == summaries(found)
  IN  [data |-> post_summaries,
       pagination |-> [page |-> page, limit |-> limit,
                       total |-> total_count(post_summaries, page, limit)]]

\* Everything a read operation leaves alone.
readFrame == <<posts, comments, connections, now, nextPostId, nextCommentId,
               reqVars, bcVars, last, favorites, userVars, writer>>

\* A caller asks the repository for a page of published posts.
FindPublished(page, limit, author) ==
  /\ reply = NoReply
  /\ reply' = [op |-> "find_published", page |-> page, limit |-> limit, author |-> author,
               data |-> find_published(posts, page, limit, author)]
  /\ UNCHANGED readFrame

\* A caller asks PostService for published posts.
GetPublishedPosts(page, limit, author) ==
  /\ reply = NoReply
  /\ reply' = [op |-> "get_published_posts", page |-> page, limit |-> limit, author |-> author,
               called |-> [page |-> get_published_posts(posts, page, limit, author).page,
                           limit |-> get_published_posts(posts, page, limit, author).limit],
               data |-> get_published_posts(posts, page, limit, author).data]
  /\ UNCHANGED readFrame

\* A caller asks PostService for an author's posts.
GetPostsByAuthorWithPagination(author, page, limit, status) ==
  /\ reply = NoReply
  /\ LET r == get_posts_by_author_with_pagination(posts, author, page, limit, status)
     IN  reply' = [op |-> "get_posts_by_author_with_pagination", page |-> page, limit |-> limit,
                   author |-> author, status |-> status,
                   called |-> [page |-> r.page, limit |-> r.limit],
                   data |-> r.data]
  /\ UNCHANGED readFrame

\* GET /posts: the application service's answer and the route's hasNext.
GetPosts(page, limit, status, author) ==
  /\ reply = NoReply
  /\ LET r == get_posts(posts, page, limit, status, author)
     IN  reply' = [op |-> "get_posts", page |-> page, limit |-> limit, author |-> author,
                   status |-> status, data |-> r.data, total |-> r.pagination.total,
                   hasNext |-> has_next(r.pagination.page, r.pagination.limit, r.pagination.total)]
  /\ UNCHANGED readFrame

\* GET /users/{uid}/posts
GetUserPosts(user_id, page, limit, status) ==
  /\ reply = NoReply
  /\ LET r == get_user_posts(posts, user_id, page, limit, status)
     IN  reply' = [op |-> "get_user_posts", page |-> page, limit |-> limit, author |-> user_id,
                   status |-> status, data |-> r.data, total |-> r.pagination.total,
                   hasNext |-> has_next(r.pagination.page, r.pagination.limit, r.pagination.total)]
  /\ UNCHANGED readFrame

\* The caller has taken the reply.
ReplyTaken ==
  /\ reply # NoReply
  /\ reply' = NoReply
  /\ UNCHANGED readFrame

InitLists ==
  /\ posts = [i \in ListedIds |-> Absent]
  /\ comments = [i \in CommentIds |-> Absent]
  /\ InitRest

Pages == 1..MaxPage
Limits == 1..MaxLimit
\* <<page, limit>> below, at and above what PostService accepts
ClampInputs == {<<0, 1>>, <<0 - 1, 0>>, <<1, MaxPostsLimit>>,
                <<2, MaxPostsLimit + 1>>, <<MaxPage, MaxLimit>>}

\* One caller at a time: a call starts when the reply of the call before it
\* has been taken.
NextLists ==
  \/ \E author \in Users, status \in StatusInputs :
       reply = NoReply /\ CreatePost(<<"a">>, <<"c">>, <<"e">>, author, status, now)
  \/ reply = NoReply /\ Tick
  \/ \E page \in Pages, limit \in Limits, author \in {NoText, Author} :
       FindPublished(page, limit, author)
  \/ \E in \in ClampInputs : GetPublishedPosts(in[1], in[2], NoText)
  \/ \E in \in ClampInputs : GetPostsByAuthorWithPagination(Author, in[1], in[2], NoStatus)
  \/ \E page \in Pages : GetPosts(page, MaxLimit, PUBLISHED, NoText)
  \/ \E page \in Pages : GetUserPosts(Author, page, MaxLimit, NoStatus)
  \/ ReplyTaken

SpecLists == InitLists /\ [][NextLists]_vars

\* ------------------------------------------------------------------ comment listings
\* One step of the stable ascending sort: x goes behind every element whose
\* key is not greater than its own.
RECURSIVE insert_asc(_, _, _)
insert_asc(sorted, x, field) ==
  IF sorted = <<>> THEN <<x>>
  ELSE IF Head(sorted)[field] <= x[field]
       THEN <<Head(sorted)>> \o insert_asc(Tail(sorted), x, field)
       ELSE <<x>> \o sorted

\* list.sort(key=lambda c: c.<field>): stable
RECURSIVE sort_asc(_, _)
sort_asc(list, field) ==
  IF list = <<>> THEN <<>>
  ELSE insert_asc(sort_asc(SubSeq(list, 1, Len(list) - 1), field), list[Len(list)], field)

\* Variant: the newest comments come first.
find_by_post_id_newest_first(repo, post_id, limit) ==
  LET of_post == SelectSeq(values(repo), LAMBDA comment : comment.post_id = post_id)
  IN  slice(sort_desc(of_post, "created_at"), 0, limit)

\* InMemoryCommentRepository.find_by_post_id
find_by_post_id(repo, post_id, limit) ==
  LET of_post == SelectSeq(values(repo), LAMBDA comment : comment.post_id = post_id)
  IN  slice(sort_asc(of_post, "created_at"), 0, limit)

MaxCommentsLimit == 100   \* "limit > 100"

\* CommentService.get_comments_by_post
get_comments_by_post(post_repo, comment_repo, post_id, limit) ==
  IF ~exists_by_id(post_repo, post_id)
  THEN [ok |-> FALSE, exc |-> "PostNotFoundError", data |-> <<>>]
  ELSE [ok |-> TRUE, exc |-> "none",
        data |-> find_by_post_id(comment_repo, post_id,
                                 IF limit < 1 \/ limit > MaxCommentsLimit
                                 THEN DefaultLimit ELSE limit)]

\* A caller asks CommentService for the comments of a post.
GetCommentsByPost(post_id, limit) ==
  /\ reply = NoReply
  /\ pc = "idle"
  /\ LET r == get_comments_by_post(posts, comments, post_id, limit)
     IN  reply' = [op |-> "get_comments_by_post", post_id |-> post_id, limit |-> limit,
                   result |-> IF r.ok THEN "ok" ELSE r.exc, data |-> r.data]
  /\ UNCHANGED readFrame

InitComments ==
  /\ posts = [i \in 1..MaxCommented |-> Absent]
  /\ comments = [i \in 1..MaxThread |-> Absent]
  /\ InitRest

\* limits below, within and above what CommentService accepts
CommentLimits == {0, 1, MaxLimit, MaxCommentsLimit + 1}

\* No socket is connected here: the broadcast of a new comment has nobody to
\* send to.
NextComments ==
  \/ reply = NoReply /\ CreatePost(<<"a">>, <<"c">>, <<"e">>, Author, PUBLISHED, now)
  \/ \E post_id \in 1..MaxCommented :
       reply = NoReply /\ CreateCommentRequest(post_id, <<"n">>, Commenter)
  \/ CreateCommentSave(TRUE)
  \/ BroadcastNewComment
  \/ RequestReturn
  \/ reply = NoReply /\ pc = "idle" /\ Tick
  \/ \E post_id \in 1..MaxCommented, limit \in CommentLimits : GetCommentsByPost(post_id, limit)
  \/ ReplyTaken

SpecComments == InitComments /\ [][NextComments]_vars

\* ------------------------------------------------------------------ repository
InitRepo ==
  /\ posts = [i \in 1..MaxStored |-> Absent]
  /\ comments = [i \in CommentIds |-> Absent]
  /\ InitRest

\* <<title, content, excerpt>> of the update requests made here
RepoUpdateInputs == {<<<<" ", "b">>, NoText, NoText>>}

NextRepo ==
  \/ \E status \in StatusInputs : CreatePost(<<"a">>, <<"c">>, <<"e">>, Author, status, now)
  \/ \E post_id \in 1..MaxStored, in \in RepoUpdateInputs :
       UpdatePost(post_id, Author, in[1], in[2], in[3], now)
  \/ \E post_id \in 1..MaxStored, t \in Reads(now) : PublishPost(post_id, Author, t)
  \/ \E post_id \in 1..MaxStored : DeletePost(post_id, Author)
  \/ Tick

SpecRepo == InitRepo /\ [][NextRepo]_vars

\* ------------------------------------------------------------------ favorites
\* The favorited ids of a user as a set (the repository keeps a set per user;
\* the model keeps them in the order they were added).
favorite_set(data, user_id) == {data[user_id][k] : k \in 1..Len(data[user_id])}

\* Variant: the pair is not stored.
add_favorite_dropped(data, user_id, post_id) == data

\* InMemoryFavoriteRepository.add_favorite: set.add
add_favorite(data, user_id, post_id) ==
  IF post_id \in favorite_set(data, user_id) THEN data
  ELSE [data EXCEPT ![user_id] = Append(@, post_id)]

\* Variant: removing a pair drops every pair of the user.
remove_favorite_clears(data, user_id, post_id) == [data EXCEPT ![user_id] = <<>>]

\* InMemoryFavoriteRepository.remove_favorite: set.discard
remove_favorite(data, user_id, post_id) ==
  [data EXCEPT ![user_id] = SelectSeq(@, LAMBDA id : id # post_id)]

\* InMemoryFavoriteRepository.list_favorites: list(set), the ids in the
\* set's iteration order, which is any order
list_favorites(data, user_id) ==
  LET ids == favorite_set(data, user_id)
      n == Cardinality(ids)
  IN  {l \in [1..n -> ids] : \A k, m \in 1..n : k # m => l[k] # l[m]}

\* reversed(list)
reversed(list) == [k \in 1..Len(list) |-> list[Len(list) + 1 - k]]

\* "page = max(1, page or 1)", "limit = max(1, min(50, limit or 10))"
favorites_page(page) ==
  LET given == IF page = 0 THEN 1 ELSE page
  IN  IF given < 1 THEN 1 ELSE given

favorites_limit(limit) ==
  LET given == IF limit = 0 THEN DefaultLimit ELSE limit
      capped == IF given > MaxPostsLimit THEN MaxPostsLimit ELSE given
  IN  IF capped < 1 THEN 1 ELSE capped

\* the posts of the ids that find_by_id still finds, in the order of the ids
RECURSIVE resolve(_, _)
resolve(repo, ids) ==
  IF ids = <<>> THEN <<>>
  ELSE IF find_by_id(repo, Head(ids)) # Absent
       THEN <<find_by_id(repo, Head(ids))>> \o resolve(repo, Tail(ids))
       ELSE resolve(repo, Tail(ids))

\* FavoriteApplicationService.get_user_favorites, given the list the
\* repository returned
get_user_favorites(repo, ids, page, limit) ==
  LET page1 == favorites_page(page)
      limit1 == favorites_limit(limit)
      ids_sorted == reversed(ids)
      start == (page1 - 1) * limit1
      end == start + limit1
      page_ids == slice(ids_sorted, start, end)
  IN  [data |-> resolve(repo, page_ids),
       pagination |-> [page |-> page1, limit |-> limit1, total |-> Len(ids)]]

\* FavoriteApplicationService.add_favorite
AddFavorite(user_id, post_id) ==
  /\ reply = NoReply
  /\ IF find_by_id(posts, post_id) = Absent
     THEN /\ reply' = [op |-> "add_favorite", user_id |-> user_id, post_id |-> post_id,
                       result |-> "NotFoundError"]
          /\ UNCHANGED favorites
     ELSE /\ favorites' = add_favorite(favorites, user_id, post_id)
          /\ reply' = [op |-> "add_favorite", user_id |-> user_id, post_id |-> post_id,
                       result |-> "ok"]
  /\ UNCHANGED <<posts, comments, connections, now, nextPostId, nextCommentId,
                 reqVars, bcVars, last, userVars, writer>>

\* FavoriteApplicationService.remove_favorite
RemoveFavorite(user_id, post_id) ==
  /\ reply = NoReply
  /\ favorites' = remove_favorite(favorites, user_id, post_id)
  /\ reply' = [op |-> "remove_favorite", user_id |-> user_id, post_id |-> post_id,
               result |-> "ok"]
  /\ UNCHANGED <<posts, comments, connections, now, nextPostId, nextCommentId,
                 reqVars, bcVars, last, userVars, writer>>

\* FavoriteApplicationService.get_user_favorites
GetUserFavorites(user_id, page, limit) ==
  /\ reply = NoReply
  /\ \E ids \in list_favorites(favorites, user_id) :
       LET r == get_user_favorites(posts, ids, page, limit)
       IN  reply' = [op |-> "get_user_favorites", user_id |-> user_id, page |-> page,
                     limit |-> limit, listed |-> ids, data |-> r.data,
                     total |-> r.pagination.total]
  /\ UNCHANGED readFrame

InitFavorites ==
  /\ posts = [i \in 1..MaxFavPosts |-> Absent]
  /\ comments = [i \in CommentIds |-> Absent]
  /\ InitRest

NextFavorites ==
  \/ reply = NoReply /\ CreatePost(<<"a">>, <<"c">>, <<"e">>, Author, PUBLISHED, now)
  \/ \E post_id \in 1..MaxFavPosts : reply = NoReply /\ DeletePost(post_id, Author)
  \/ \E user_id \in Users, post_id \in 1..MaxFavPosts : AddFavorite(user_id, post_id)
  \/ \E user_id \in Users, post_id \in 1..MaxFavPosts : RemoveFavorite(user_id, post_id)
  \/ \E user_id \in Users, page \in Pages, limit \in Limits :
       GetUserFavorites(user_id, page, limit)
  \/ ReplyTaken

SpecFavorites == InitFavorites /\ [][NextFavorites]_vars

\* ------------------------------------------------------------------ application services
\* PostApplicationService, the except clauses of each operation: the
\* exception that leaves the operation when PostService raised exc.
TranslatePostError(op, exc) ==
  IF exc = "ok" THEN "ok"
  ELSE IF op = "create_post"
  THEN (IF exc \in {"ValueError", "PostValidationError"} THEN "ValidationError"
        ELSE "ApplicationError")
  ELSE IF op \in {"update_post", "publish_post"}
  THEN (IF exc = "PostNotFoundError" THEN "NotFoundError"
        ELSE IF exc = "UnauthorizedPostAccessError" THEN "ForbiddenError"
        ELSE IF exc \in {"ValueError", "PostValidationError"} /\ op = "update_post"
        THEN "ValidationError"
        ELSE IF exc = "ValueError" THEN "ValidationError"
        ELSE "ApplicationError")
  ELSE IF op = "delete_post"
  THEN (IF exc = "PostNotFoundError" THEN "NotFoundError"
        ELSE IF exc = "UnauthorizedPostAccessError" THEN "ForbiddenError"
        ELSE "ApplicationError")
  ELSE IF op = "get_post_by_id"
  THEN (IF exc = "PostNotFoundError" THEN "NotFoundError" ELSE "ApplicationError")
  ELSE "ApplicationError"

\* CommentApplicationService: create_comment has except clauses; the other
\* operations call CommentService outside any try, so what it raises
\* leaves them as it is.
TranslateCommentCall(op, exc) ==
  IF exc = "ok" THEN "ok"
  ELSE IF op = "create_comment" THEN TranslateCommentError(exc)
  ELSE exc

\* InMemoryCommentRepository.find_by_id
comment_find_by_id(repo, comment_id) ==
  IF comment_id \in DOMAIN repo THEN repo[comment_id] ELSE Absent

\* InMemoryCommentRepository.delete
comment_delete(repo, comment_id) ==
  IF comment_id \in DOMAIN repo /\ repo[comment_id] # Absent
  THEN [repo EXCEPT ![comment_id] = Absent] ELSE repo

\* InMemoryCommentRepository.find_by_author: newest first
find_by_author(repo, author) ==
  sort_desc(SelectSeq(values(repo), LAMBDA comment : comment.user_id = author), "created_at")

\* Comment.update_content
comment_update_content(comment, content) ==
  IF IsBlank(content)
  THEN [ok |-> FALSE, exc |-> "ValueError", comment |-> comment]
  ELSE [ok |-> TRUE, exc |-> "none", comment |-> [comment EXCEPT !.content = Strip(content)]]

\* Comment.can_be_updated_by / can_be_deleted_by
comment_can_be_updated_by(comment, user_id) == comment.user_id = user_id
comment_can_be_deleted_by(comment, user_id) == comment.user_id = user_id

\* CommentService.update_comment: what it raises ("ok" when it returns) and
\* the repository afterwards
update_comment(repo, comment_id, user_id, content, storage_ok) ==
  LET comment == comment_find_by_id(repo, comment_id)
  IN  IF comment = Absent THEN [exc |-> "CommentNotFoundError", repo |-> repo]
      ELSE IF ~comment_can_be_updated_by(comment, user_id)
      THEN [exc |-> "UnauthorizedCommentAccessError", repo |-> repo]
      ELSE LET r == comment_update_content(comment, content)
           IN  IF ~r.ok THEN [exc |-> r.exc, repo |-> repo]
               ELSE IF SaveRaises(storage_ok) THEN [exc |-> "Exception", repo |-> repo]
               ELSE [exc |-> "ok", repo |-> [repo EXCEPT ![comment_id] = r.comment]]

\* CommentService.delete_comment
delete_comment(repo, comment_id, user_id) ==
  LET comment == comment_find_by_id(repo, comment_id)
  IN  IF comment = Absent THEN [exc |-> "CommentNotFoundError", repo |-> repo]
      ELSE IF ~comment_can_be_deleted_by(comment, user_id)
      THEN [exc |-> "UnauthorizedCommentAccessError", repo |-> repo]
      ELSE [exc |-> "ok", repo |-> comment_delete(repo, comment_id)]

commentFrame == <<posts, connections, now, nextPostId, nextCommentId, reqVars, bcVars,
                  last, favorites, userVars, writer>>

\* CommentApplicationService.update_comment
UpdateComment(comment_id, user_id, content, storage_ok) ==
  /\ reply = NoReply
  /\ pc = "idle"
  /\ LET r == update_comment(comments, comment_id, user_id, content, storage_ok)
     IN  /\ comments' = r.repo
         /\ reply' = [op |-> "update_comment", comment_id |-> comment_id, user_id |-> user_id,
                      result |-> TranslateCommentCall("update_comment", r.exc)]
  /\ UNCHANGED commentFrame

\* CommentApplicationService.delete_comment
DeleteComment(comment_id, user_id) ==
  /\ reply = NoReply
  /\ pc = "idle"
  /\ LET r == delete_comment(comments, comment_id, user_id)
     IN  /\ comments' = r.repo
         /\ reply' = [op |-> "delete_comment", comment_id |-> comment_id, user_id |-> user_id,
                      result |-> TranslateCommentCall("delete_comment", r.exc)]
  /\ UNCHANGED commentFrame

\* CommentApplicationService.get_comments_by_author
GetCommentsByAuthor(author) ==
  /\ reply = NoReply
  /\ pc = "idle"
  /\ reply' = [op |-> "get_comments_by_author", author |-> author, result |-> "ok",
               data |-> find_by_author(comments, author)]
  /\ UNCHANGED readFrame

\* The operations of the two application services, over the in-memory post
\* repository and a comment repository whose save can fail.
NextServices ==
  \/ \E status \in StatusInputs :
       reply = NoReply /\ CreatePost(<<"a">>, <<"c">>, <<"e">>, Author, status, now)
  \/ \E post_id \in PostIds, user_id \in Users, in \in RepoUpdateInputs :
       reply = NoReply /\ UpdatePost(post_id, user_id, in[1], in[2], in[3], now)
  \/ \E post_id \in PostIds, user_id \in Users :
       reply = NoReply /\ PublishPost(post_id, user_id, now)
  \/ \E post_id \in PostIds, user_id \in Users : reply = NoReply /\ DeletePost(post_id, user_id)
  \/ \E post_id \in PostIds, content \in CommentInputs :
       reply = NoReply /\ CreateCommentRequest(post_id, content, Commenter)
  \/ \E storage_ok \in BOOLEAN : CreateCommentSave(storage_ok)
  \/ BroadcastNewComment
  \/ RequestReturn
  \/ \E comment_id \in CommentIds, user_id \in Users, content \in CommentInputs, storage_ok \in BOOLEAN :
       UpdateComment(comment_id, user_id, content, storage_ok)
  \/ \E comment_id \in CommentIds, user_id \in Users : DeleteComment(comment_id, user_id)
  \/ \E post_id \in PostIds, limit \in {1} : GetCommentsByPost(post_id, limit)
  \/ \E author \in Users : GetCommentsByAuthor(author)
  \/ ReplyTaken

SpecServices == Init /\ [][NextServices]_vars

\* ------------------------------------------------------------------ DynamoDB repositories
\* DynamoDBPostRepository._item_to_post: the status is Published only for
\* the value "published"; the other attributes are read as they were written.
item_to_post(item) ==
  [id |-> item.id, title |-> item.title, content |-> item.content, excerpt |-> item.excerpt,
   author |-> item.author, status |-> IF item.status = PUBLISHED THEN PUBLISHED ELSE DRAFT,
   published_at |-> item.published_at, created_at |-> item.created_at,
   updated_at |-> item.updated_at]

\* DynamoDBCommentRepository._item_to_comment
item_to_comment(item) ==
  [id |-> item.id, content |-> item.content, user_id |-> item.user_id,
   post_id |-> item.post_id, created_at |-> item.created_at]

\* What a repository call hands to its caller: the exception it raises
\* ("none" when it returns) and the value it returns.
Returned(value) == [raised |-> "none", value |-> value]

\* DynamoDBPostRepository.find_by_id: a failed get_item is printed and
\* answered with None.
dynamo_find_by_id(table, post_id, storage_ok) ==
  IF ~storage_ok THEN Returned(Absent)
  ELSE IF post_id \in DOMAIN table /\ table[post_id] # Absent
       THEN Returned(item_to_post(table[post_id]))
       ELSE Returned(Absent)

\* DynamoDBPostRepository.exists_by_id: a failed get_item is answered with
\* False.
dynamo_exists_by_id(table, post_id, storage_ok) ==
  IF ~storage_ok THEN Returned(FALSE)
  ELSE Returned(post_id \in DOMAIN table /\ table[post_id] # Absent)

\* DynamoDBPostRepository.delete: a failed delete_item is printed and the
\* call returns None as it does after a delete.
dynamo_delete(table, post_id, storage_ok) ==
  IF ~storage_ok THEN [raised |-> "none", table |-> table]
  ELSE [raised |-> "none", table |-> delete(table, post_id)]

\* the items a scan returns, each as a post
RECURSIVE to_posts(_)
to_posts(items) ==
  IF items = <<>> THEN <<>> ELSE <<item_to_post(Head(items))>> \o to_posts(Tail(items))

\* DynamoDBPostRepository.find_published: a failed scan is answered with [].
dynamo_find_published(table, page, limit, author, storage_ok) ==
  IF ~storage_ok THEN Returned(<<>>)
  ELSE LET wanted(item) == /\ item.status = PUBLISHED
                           /\ (Truthy(author) => item.author = author)
           found == to_posts(SelectSeq(values(table), wanted))
       IN  Returned(slice(sort_desc(found, "published_at"), (page - 1) * limit,
                          (page - 1) * limit + limit))

\* DynamoDBCommentRepository.find_by_id
dynamo_comment_find_by_id(table, comment_id, storage_ok) ==
  IF ~storage_ok THEN Returned(Absent)
  ELSE IF comment_id \in DOMAIN table /\ table[comment_id] # Absent
       THEN Returned(item_to_comment(table[comment_id]))
       ELSE Returned(Absent)

\* DynamoDBCommentRepository.exists_by_id
dynamo_comment_exists_by_id(table, comment_id, storage_ok) ==
  IF ~storage_ok THEN Returned(FALSE)
  ELSE Returned(comment_id \in DOMAIN table /\ table[comment_id] # Absent)

\* DynamoDBCommentRepository.delete
dynamo_comment_delete(table, comment_id, storage_ok) ==
  IF ~storage_ok THEN [raised |-> "none", table |-> table]
  ELSE [raised |-> "none", table |-> comment_delete(table, comment_id)]

\* DynamoDBCommentRepository.find_by_post_id: a failed scan is answered
\* with [].
dynamo_find_by_post_id(table, post_id, limit, storage_ok) ==
  IF ~storage_ok THEN Returned(<<>>)
  ELSE Returned(find_by_post_id(table, post_id, limit))

\* A call of one of the reading methods of the two repositories.
StoreRead(repo, op, id, storage_ok) ==
  /\ reply = NoReply
  /\ pc = "idle"
  /\ LET r == IF repo = "posts"
              THEN (IF op = "find_by_id" THEN dynamo_find_by_id(posts, id, storage_ok)
                    ELSE IF op = "exists_by_id" THEN dynamo_exists_by_id(posts, id, storage_ok)
                    ELSE dynamo_find_published(posts, 1, MaxLimit, NoText, storage_ok))
              ELSE (IF op = "find_by_id" THEN dynamo_comment_find_by_id(comments, id, storage_ok)
                    ELSE IF op = "exists_by_id" THEN dynamo_comment_exists_by_id(comments, id, storage_ok)
                    ELSE dynamo_find_by_post_id(comments, id, MaxLimit, storage_ok))
     IN  reply' = [op |-> op, repo |-> repo, id |-> id, storage_ok |-> storage_ok,
                   raised |-> r.raised, value |-> r.value]
  /\ UNCHANGED readFrame

\* DynamoDBPostRepository.delete
StoreDeletePost(post_id, storage_ok) ==
  /\ reply = NoReply
  /\ pc = "idle"
  /\ LET r == dynamo_delete(posts, post_id, storage_ok)
     IN  /\ posts' = r.table
         /\ reply' = [op |-> "delete", repo |-> "posts", id |-> post_id,
                      storage_ok |-> storage_ok, raised |-> r.raised, value |-> "None"]
  /\ UNCHANGED <<comments, connections, now, nextPostId, nextCommentId, reqVars, bcVars,
                 last, favorites, userVars, writer>>

\* DynamoDBCommentRepository.delete
StoreDeleteComment(comment_id, storage_ok) ==
  /\ reply = NoReply
  /\ pc = "idle"
  /\ LET r == dynamo_comment_delete(comments, comment_id, storage_ok)
     IN  /\ comments' = r.table
         /\ reply' = [op |-> "delete", repo |-> "comments", id |-> comment_id,
                      storage_ok |-> storage_ok, raised |-> r.raised, value |-> "None"]
  /\ UNCHANGED commentFrame

StoreReads == {"find_by_id", "exists_by_id", "list"}

\* Posts and comments are written through the services; the repositories
\* are then called with the storage answering or failing.
NextStore ==
  \/ \E status \in StatusInputs :
       reply = NoReply /\ CreatePost(<<"a">>, <<"c">>, <<"e">>, Author, status, now)
  \/ \E post_id \in PostIds : reply = NoReply /\ CreateCommentRequest(post_id, <<"n">>, Commenter)
  \/ \E storage_ok \in BOOLEAN : CreateCommentSave(storage_ok)
  \/ BroadcastNewComment
  \/ RequestReturn
  \/ \E repo \in {"posts", "comments"}, op \in StoreReads, id \in PostIds \cup CommentIds,
        storage_ok \in BOOLEAN : StoreRead(repo, op, id, storage_ok)
  \/ \E post_id \in PostIds, storage_ok \in BOOLEAN : StoreDeletePost(post_id, storage_ok)
  \/ \E comment_id \in CommentIds, storage_ok \in BOOLEAN : StoreDeleteComment(comment_id, storage_ok)
  \/ ReplyTaken

SpecStore == Init /\ [][NextStore]_vars

\* ------------------------------------------------------------------ users
GUEST == <<"G">>   \* "Guest", the display name of an anonymous user
USER == <<"U">>    \* "User", the display name when the email has no "@"

\* "'@' in email"
HasAt(s) == \E k \in 1..Len(s) : s[k] = "@"

\* email.split('@')[0]
RECURSIVE BeforeAt(_)
BeforeAt(s) == IF s = <<>> \/ Head(s) = "@" THEN <<>>
               ELSE <<Head(s)>> \o BeforeAt(Tail(s))

\* str.lower()
Lower(s) == [k \in 1..Len(s) |-> IF s[k] = "A" THEN "a" ELSE s[k]]

\* "not x or not x.strip()"
Empty(text) == ~Truthy(text) \/ IsBlank(text)

\* UserDomainService.create_anonymous_user (language "en")
create_anonymous_user(firebase_uid, t) ==
  IF Empty(firebase_uid)
  THEN [ok |-> FALSE, exc |-> "UserValidationError"]
  ELSE [ok |-> TRUE, exc |-> "none",
        user |-> [firebase_uid |-> Strip(firebase_uid), email |-> NoText,
                  display_name |-> GUEST, is_anonymous |-> TRUE, bio |-> <<>>,
                  avatar_url |-> NoText, created_at |-> t, updated_at |-> t]]

\* UserDomainService.create_authenticated_user
create_authenticated_user(firebase_uid, email, display_name, t) ==
  IF Empty(firebase_uid) \/ Empty(email)
  THEN [ok |-> FALSE, exc |-> "UserValidationError"]
  ELSE LET name == IF Empty(display_name)
                   THEN (IF HasAt(email) THEN BeforeAt(email) ELSE USER)
                   ELSE display_name
       IN  [ok |-> TRUE, exc |-> "none",
            user |-> [firebase_uid |-> Strip(firebase_uid), email |-> Lower(Strip(email)),
                      display_name |-> Strip(name), is_anonymous |-> FALSE, bio |-> <<>>,
                      avatar_url |-> NoText, created_at |-> t, updated_at |-> t]]

\* UserDomainService.validate_user_promotion
validate_user_promotion(user, new_email) ==
  IF ~user.is_anonymous \/ Empty(new_email) \/ ~HasAt(new_email)
  THEN "UserValidationError" ELSE "none"

\* Variant: promotion does not look at is_anonymous.
promote_again(user, email, display_name, t) ==
  IF Empty(email) \/ Empty(display_name)
  THEN [ok |-> FALSE, exc |-> "UserValidationError", user |-> user]
  ELSE [ok |-> TRUE, exc |-> "none",
        user |-> [user EXCEPT !.email = Strip(email), !.display_name = Strip(display_name),
                              !.is_anonymous = FALSE, !.updated_at = t]]

\* User.promote_to_authenticated: every check comes before the first
\* assignment.
promote_to_authenticated(user, email, display_name, t) ==
  IF ~user.is_anonymous \/ Empty(email) \/ Empty(display_name)
  THEN [ok |-> FALSE, exc |-> "UserValidationError", user |-> user]
  ELSE [ok |-> TRUE, exc |-> "none",
        user |-> [user EXCEPT !.email = Strip(email), !.display_name = Strip(display_name),
                              !.is_anonymous = FALSE, !.updated_at = t]]

\* "x.strip() if x.strip() else None"
StripOrNone(text) == IF IsBlank(text) THEN NoText ELSE Strip(text)

\* User.update_profile; NoText = not given
update_profile(user, display_name, bio, avatar_url, t) ==
  IF display_name # NoText /\ IsBlank(display_name)
  THEN [ok |-> FALSE, exc |-> "UserValidationError", user |-> user]
  ELSE [ok |-> TRUE, exc |-> "none",
        user |-> [user EXCEPT
                    !.display_name = IF display_name # NoText THEN Strip(display_name) ELSE @,
                    !.bio = IF bio # NoText THEN StripOrNone(bio) ELSE @,
                    !.avatar_url = IF avatar_url # NoText THEN StripOrNone(avatar_url) ELSE @,
                    !.updated_at = t]]

\* DynamoDBUserRepository._user_to_item: email, bio and avatar_url are
\* written only when they are truthy.
user_to_item(user) ==
  [user EXCEPT !.email = IF Truthy(@) THEN @ ELSE NoText,
               !.bio = IF Truthy(@) THEN @ ELSE NoText,
               !.avatar_url = IF Truthy(@) THEN @ ELSE NoText]

\* DynamoDBUserRepository._item_to_user: an attribute the item lacks reads
\* as None.
item_to_user(item) ==
  [firebase_uid |-> item.firebase_uid, email |-> item.email,
   display_name |-> item.display_name, is_anonymous |-> item.is_anonymous,
   bio |-> item.bio, avatar_url |-> item.avatar_url,
   created_at |-> item.created_at, updated_at |-> item.updated_at]

\* DynamoDBUserRepository.get_by_firebase_uid: a failed get_item is logged
\* and answered with None.
get_by_firebase_uid(table, firebase_uid, storage_ok) ==
  IF ~storage_ok \/ firebase_uid \notin DOMAIN table THEN Absent
  ELSE IF table[firebase_uid] = Absent THEN Absent
  ELSE item_to_user(table[firebase_uid])

\* Variant: create overwrites.
user_create_put(table, user) ==
  [ok |-> TRUE, exc |-> "none",
   table |-> [table EXCEPT ![user.firebase_uid] = user_to_item(user)]]

\* DynamoDBUserRepository.create: put_item with
\* attribute_not_exists(firebase_uid); the failed condition is raised as
\* ValueError.
user_create(table, user) ==
  IF table[user.firebase_uid] # Absent
  THEN [ok |-> FALSE, exc |-> "ValueError", table |-> table]
  ELSE [ok |-> TRUE, exc |-> "none",
        table |-> [table EXCEPT ![user.firebase_uid] = user_to_item(user)]]

\* DynamoDBUserRepository.update: update_item with
\* attribute_exists(firebase_uid); SET of updated_at, display_name,
\* is_anonymous, and of email, bio and avatar_url when they are truthy.
user_update(table, user, t) ==
  IF table[user.firebase_uid] = Absent
  THEN [ok |-> FALSE, exc |-> "ValueError", table |-> table]
  ELSE [ok |-> TRUE, exc |-> "none",
        table |-> [table EXCEPT ![user.firebase_uid] =
                     [@ EXCEPT !.updated_at = t,
                               !.display_name = user.display_name,
                               !.is_anonymous = user.is_anonymous,
                               !.email = IF Truthy(user.email) THEN user.email ELSE @,
                               !.bio = IF Truthy(user.bio) THEN user.bio ELSE @,
                               !.avatar_url = IF Truthy(user.avatar_url) THEN user.avatar_url ELSE @]]]

\* DynamoDBUserRepository.exists_by_email: a failed scan is logged and
\* answered with False.
exists_by_email(table, email, storage_ok) ==
  storage_ok /\ \E uid \in DOMAIN table : table[uid] # Absent /\ table[uid].email = email

\* Everything the user operations leave alone.
userFrame == <<posts, comments, connections, nextPostId, nextCommentId,
               reqVars, bcVars, last, favorites, writer>>

\* UserApplicationService.handle_user_promotion.  identity = <<uid,
\* is_anonymous, email>> of the verified caller; the outcome is the result
\* and the table afterwards.
handle_user_promotion(table, identity, get_ok, scan_ok, t) ==
  LET uid == identity[1]
      current_email == identity[3]
      fail(exc) == [result |-> exc, table |-> table]
  IN  IF identity[2] \/ ~Truthy(current_email) THEN fail("UserValidationError")
      ELSE LET user_entity == get_by_firebase_uid(table, uid, get_ok)
           IN  IF user_entity = Absent
               THEN LET made == create_authenticated_user(uid, current_email,
                                                          BeforeAt(current_email), t)
                    IN  IF ~made.ok THEN fail(made.exc)
                        ELSE LET put == user_create(table, made.user)
                             IN  IF put.ok THEN [result |-> "ok", table |-> put.table]
                                 ELSE fail("Exception")
               ELSE IF validate_user_promotion(user_entity, current_email) # "none"
               THEN fail("UserValidationError")
               ELSE IF exists_by_email(table, current_email, scan_ok)
               THEN fail("EmailAlreadyExistsError")
               ELSE LET display_name == IF HasAt(current_email) THEN BeforeAt(current_email) ELSE USER
                        promoted == promote_to_authenticated(user_entity, current_email, display_name, t)
                    IN  IF ~promoted.ok THEN fail(promoted.exc)
                        ELSE LET put == user_update(table, promoted.user, t)
                             IN  IF put.ok THEN [result |-> "ok", table |-> put.table]
                                 ELSE fail("Exception")

HandleUserPromotion(identity, get_ok, scan_ok) ==
  /\ reply = NoReply
  /\ LET r == handle_user_promotion(users, identity, get_ok, scan_ok, now)
     IN  /\ users' = r.table
         /\ reply' = [op |-> "handle_user_promotion", uid |-> identity[1],
                      email |-> identity[3], result |-> r.result]
  /\ UNCHANGED <<userFrame, now, logins>>

\* User.promote_to_authenticated called with any email and display name on
\* the entity the repository hands out for uid, and the entity written back
\* when the call succeeded.
PromoteToAuthenticated(uid, email, display_name) ==
  /\ reply = NoReply
  /\ users[uid] # Absent
  /\ LET r == promote_to_authenticated(get_by_firebase_uid(users, uid, TRUE), email, display_name, now)
     IN  /\ users' = IF r.ok THEN user_update(users, r.user, now).table ELSE users
         /\ reply' = [op |-> "promote_to_authenticated", uid |-> uid, email |-> email,
                      display_name |-> display_name,
                      result |-> IF r.ok THEN "ok" ELSE r.exc]
  /\ UNCHANGED <<userFrame, now, logins>>

\* User.update_profile called on the entity the repository hands out for
\* uid, and the entity written back when the call succeeded.
UpdateProfile(uid, display_name, bio, avatar_url) ==
  /\ reply = NoReply
  /\ users[uid] # Absent
  /\ LET r == update_profile(get_by_firebase_uid(users, uid, TRUE), display_name, bio, avatar_url, now)
     IN  /\ users' = IF r.ok THEN user_update(users, r.user, now).table ELSE users
         /\ reply' = [op |-> "update_profile", uid |-> uid,
                      result |-> IF r.ok THEN "ok" ELSE r.exc]
  /\ UNCHANGED <<userFrame, now, logins>>

\* UserApplicationService.handle_anonymous_login up to the repository's
\* answer to get_by_firebase_uid.  Calls of several server processes share
\* the table, so other calls can act between this step and the create.
LoginGet(c, identity, get_ok) ==
  /\ logins[c] = NoLogin
  /\ reply = NoReply
  /\ LET uid == identity[1]
         done(result) == [at |-> "done", uid |-> uid, result |-> result]
     IN  IF ~identity[2] THEN logins' = [logins EXCEPT ![c] = done("UserValidationError")]
         ELSE IF get_by_firebase_uid(users, uid, get_ok) # Absent
         THEN logins' = [logins EXCEPT ![c] = done("ok")]
         ELSE LET made == create_anonymous_user(uid, now)
              IN  IF ~made.ok THEN logins' = [logins EXCEPT ![c] = done(made.exc)]
                  ELSE logins' = [logins EXCEPT ![c] =
                                    [at |-> "create", uid |-> uid, user |-> made.user]]
  /\ UNCHANGED <<userFrame, now, users, reply>>

\* ... and its user_repository.create: a ValueError of the repository is
\* re-raised as Exception("Failed to create anonymous user entity").
LoginCreate(c) ==
  /\ logins[c].at = "create"
  /\ LET put == user_create(users, logins[c].user)
     IN  /\ users' = put.table
         /\ logins' = [logins EXCEPT ![c] =
                         [at |-> "done", uid |-> logins[c].uid,
                          result |-> IF put.ok THEN "ok" ELSE "Exception"]]
  /\ UNCHANGED <<userFrame, now, reply>>

\* The caller has the response.
LoginReturn(c) ==
  /\ logins[c].at = "done"
  /\ logins' = [logins EXCEPT ![c] = NoLogin]
  /\ UNCHANGED <<userFrame, now, users, reply>>

\* <<uid, is_anonymous, email>> of verified callers
Anonymous(uid) == <<uid, TRUE, NoText>>
EmailInputs == {NoText, <<"a", "@", "b">>, <<"a">>, <<" ", "@", "b">>}
NameInputs == {NoText, <<" ">>, <<"n", " ">>}

NextUsers ==
  \/ \E uid \in Users : LoginGet(1, Anonymous(uid), TRUE)
  \/ LoginCreate(1)
  \/ LoginReturn(1)
  \/ \E uid \in Users, anon \in BOOLEAN, email \in EmailInputs, get_ok, scan_ok \in BOOLEAN :
       HandleUserPromotion(<<uid, anon, email>>, get_ok, scan_ok)
  \/ \E uid \in Users, email \in EmailInputs, display_name \in NameInputs :
       PromoteToAuthenticated(uid, email, display_name)
  \/ \E uid \in Users, display_name \in NameInputs :
       UpdateProfile(uid, display_name, NoText, NoText)
  \/ reply = NoReply /\ now < MaxUserClock /\ Tick
  \/ ReplyTaken

SpecUsers == Init /\ [][NextUsers]_vars

\* Logins only: the handle_anonymous_login calls of several workers on the
\* same users table, each between its get_by_firebase_uid and its create.
NextLogins ==
  \/ \E c \in Callers, uid \in Users, get_ok \in BOOLEAN : LoginGet(c, Anonymous(uid), get_ok)
  \/ \E c \in Callers : LoginCreate(c)
  \/ \E c \in Callers : LoginReturn(c)
  \/ now < MaxUserClock /\ Tick

SpecLogins == Init /\ [][NextLogins]_vars

\* ================================================================== claims
\* The step on which broadcast_to_all returns to the route.
BroadcastReturns == pc = "sending" /\ pc' = "responded" /\ raised' = "none"

Delivered(c) == outcomes[c] = {"ok"}
ReportedGone(c) == "gone" \in outcomes[c]
FailedTransient(c) == "error" \in outcomes[c]

\* C1: a broadcast that no connect/disconnect interleaves with attempts
\* delivery exactly once to every connection that was a member when it
\* started, whatever the outcomes of the attempts were, attempts nothing
\* else, and ends without raising.
C1_EveryMemberAttemptedOnce ==
  /\ interfered = 0 => \A c \in ConnIds : attempts[c] <= 1
  /\ (pc = "responded" /\ broadcasted /\ interfered = 0) =>
       /\ raised = "none"
       /\ response = "201"
       /\ \A c \in ConnIds : attempts[c] = IF c \in startMembers THEN 1 ELSE 0

C1_Witness ==
  /\ pc = "responded" /\ broadcasted /\ interfered = 0
  /\ Cardinality(startMembers) = 3
  /\ \E a, b, c \in startMembers :
       /\ outcomes[a] = {"error"} /\ outcomes[b] = {"gone"} /\ outcomes[c] = {"ok"}
       /\ attempts[a] = 1 /\ attempts[b] = 1 /\ attempts[c] = 1

\* C2: on the step broadcast_to_all returns, no connection whose attempt
\* reported it gone is a member, and (no connect/disconnect having
\* interleaved) every connection whose delivery succeeded still is.
C2_GoneEvictedDeliveredKept ==
  [][BroadcastReturns =>
       \A c \in ConnIds :
         /\ ReportedGone(c)' => c \notin connections'
         /\ (interfered = 0 /\ c \in startMembers /\ Delivered(c)') => c \in connections'
    ]_vars

C2_Witness ==
  /\ pc = "responded" /\ raised = "none" /\ interfered = 0
  /\ Cardinality(startMembers) = 3
  /\ \E g \in startMembers :
       /\ outcomes[g] = {"gone"}
       /\ \A c \in startMembers \ {g} : Delivered(c)
       /\ connections = startMembers \ {g}
  /\ Cardinality(connections) = 2

\* C3 as claimed: a connection whose attempt failed with a transient error
\* is still a member when broadcast_to_all returns; only connections
\* reported gone are evicted.
C3_TransientKept ==
  [][(BroadcastReturns /\ interfered = 0) =>
       \A c \in startMembers :
         /\ (FailedTransient(c)' /\ ~ReportedGone(c)') => c \in connections'
         /\ c \notin connections' => ReportedGone(c)'
    ]_vars

\* C3 amended: a connection whose attempt failed with a transient error is
\* evicted like one reported gone; (no connect/disconnect having interleaved)
\* the connections evicted are exactly those whose attempt failed.
C3_FailedEvicted ==
  [][BroadcastReturns =>
       \A c \in ConnIds :
         /\ FailedTransient(c)' => c \notin connections'
         /\ (interfered = 0 /\ c \in startMembers /\ c \notin connections')
              => (FailedTransient(c)' \/ ReportedGone(c)')
    ]_vars

C3_Witness ==
  /\ pc = "responded" /\ raised = "none" /\ interfered = 0
  /\ \E e, k \in startMembers :
       /\ outcomes[e] = {"error"} /\ e \notin connections
       /\ Delivered(k) /\ k \in connections

\* C4: the broadcaster is called for a request only after that request's
\* comment is in the repository; a request whose creation failed (post
\* missing, validation error, storage error) never reaches the broadcaster.
C4_BroadcastOnlyAfterSave ==
  /\ (broadcasted \/ pc = "sending" \/ \E c \in ConnIds : attempts[c] > 0) =>
       /\ broadcasted
       /\ persisted # 0
       /\ comments[persisted] # Absent
       /\ comments[persisted].post_id = request.post_id
  /\ raised \in {"NotFoundError", "ValidationError", "ApplicationError"} =>
       /\ ~broadcasted
       /\ persisted = 0
       /\ \A c \in ConnIds : attempts[c] = 0

C4_Witness ==
  /\ pc = "sending" /\ broadcasted /\ persisted # 0
  /\ comments[persisted] # Absent
  /\ \E c \in ConnIds : attempts[c] = 1

\* C5: a request whose comment was persisted ends with the success
\* acknowledgement, whatever happened in the broadcast.
C5_PersistedMeansAcknowledged ==
  (pc = "responded" /\ persisted # 0) => (response = "201" /\ raised = "none")

\* C6: a create-comment request for a post id that is not in the post
\* repository ends with NotFoundError (404) and leaves the comment
\* repository as it was.
C6_MissingPostNotFound ==
  [][(pc = "idle" /\ pc' # "idle" /\ posts[request'.post_id] = Absent) =>
       /\ pc' = "responded"
       /\ raised' = "NotFoundError"
       /\ response' = "404"
       /\ comments' = comments
       /\ nextCommentId' = nextCommentId
       /\ persisted' = 0
    ]_vars

C6_Witness ==
  /\ pc = "responded" /\ raised = "NotFoundError" /\ response = "404"
  /\ posts[request.post_id] = Absent
  /\ \A i \in CommentIds : comments[i] = Absent

ModifyingCalls == {"update_post", "publish_post", "unpublish_post", "delete_post"}

\* C7: an update, publish, unpublish or delete call by a user other than
\* the post's author fails with the unauthorized error and leaves the
\* repository unchanged; a stored post changes or disappears only in a call
\* on that post made by its author.
C7_OnlyAuthorModifies ==
  [][\A i \in PostIds :
       posts[i] # Absent =>
         /\ (last'.op \in ModifyingCalls /\ last'.post_id = i /\ last'.user_id # posts[i].author)
              => (last'.result = "UnauthorizedPostAccessError" /\ posts' = posts)
         /\ posts'[i] # posts[i]
              => (last'.op \in ModifyingCalls /\ last'.post_id = i /\ last'.user_id = posts[i].author)
    ]_vars

C7_Witness ==
  /\ last.op \in ModifyingCalls
  /\ last.result = "UnauthorizedPostAccessError"
  /\ posts[last.post_id] # Absent
  /\ posts[last.post_id].author # last.user_id

\* The fields publish and unpublish leave alone.
SameContent(p, q) ==
  /\ p.id = q.id /\ p.title = q.title /\ p.content = q.content
  /\ p.excerpt = q.excerpt /\ p.author = q.author /\ p.created_at = q.created_at

\* C8: by the author, publish on a Draft post makes it Published with
\* published_at the current time, publish on a Published post fails and
\* changes nothing, unpublish on a Published post makes it Draft without
\* published_at, unpublish on a Draft post fails and changes nothing.
C8_PublishUnpublish ==
  [][\A i \in PostIds :
       (posts[i] # Absent /\ last'.post_id = i /\ last'.user_id = posts[i].author) =>
         /\ (last'.op = "publish_post" /\ posts[i].status = DRAFT) =>
              /\ last'.result = "ok"
              /\ posts'[i].status = PUBLISHED
              /\ posts'[i].published_at = now
              /\ SameContent(posts'[i], posts[i])
         /\ (last'.op = "publish_post" /\ posts[i].status = PUBLISHED) =>
              (last'.result = "ValueError" /\ posts' = posts)
         /\ (last'.op = "unpublish_post" /\ posts[i].status = PUBLISHED) =>
              /\ last'.result = "ok"
              /\ posts'[i].status = DRAFT
              /\ posts'[i].published_at = NoTime
              /\ SameContent(posts'[i], posts[i])
         /\ (last'.op = "unpublish_post" /\ posts[i].status = DRAFT) =>
              (last'.result = "ValueError" /\ posts' = posts)
    ]_vars

C8_Witness ==
  /\ last.op = "publish_post" /\ last.result = "ok"
  /\ posts[last.post_id] # Absent
  /\ posts[last.post_id].status = PUBLISHED
  /\ posts[last.post_id].published_at > posts[last.post_id].created_at

NonBlank(s) == ~IsBlank(s)
Trimmed(s) == Strip(s) = s

\* The step is a successful create_post with the default status.
CreatedDraft ==
  /\ last'.op = "create_post" /\ last'.result = "ok" /\ last'.status = DRAFT
  /\ nextPostId' = nextPostId + 1

\* C11 as claimed: create_post with the default status and non-blank values
\* succeeds and stores a Draft post without published_at whose created_at
\* equals its updated_at.
C11_CreatedEqualsUpdated ==
  [][CreatedDraft =>
       /\ posts'[nextPostId].status = DRAFT
       /\ posts'[nextPostId].published_at = NoTime
       /\ posts'[nextPostId].created_at = posts'[nextPostId].updated_at
    ]_vars

\* C11 amended: create_post with the default status and non-blank values
\* succeeds and stores a Draft post without published_at; created_at is the
\* time of construction and updated_at the time of the save that follows,
\* so created_at is never later than updated_at.
C11_DraftCreatedThenSaved ==
  [][/\ CreatedDraft =>
          /\ posts'[nextPostId].status = DRAFT
          /\ posts'[nextPostId].published_at = NoTime
          /\ posts'[nextPostId].created_at = now
          /\ posts'[nextPostId].updated_at = now'
          /\ posts'[nextPostId].created_at <= posts'[nextPostId].updated_at
     /\ last'.op = "create_post" =>
          \A in \in CreateInputs, t \in Reads(now) :
            (/\ NonBlank(in[1]) /\ NonBlank(in[2]) /\ NonBlank(in[3])
             /\ NonBlank(last'.user_id)
             /\ CreatePost(in[1], in[2], in[3], last'.user_id, DRAFT, t))
              => CreatedDraft
    ]_vars

C11_Witness ==
  /\ last.op = "create_post" /\ last.result = "ok" /\ last.status = DRAFT
  /\ posts[last.post_id] # Absent
  /\ posts[last.post_id].status = DRAFT
  /\ posts[last.post_id].published_at = NoTime
  /\ posts[last.post_id].created_at < posts[last.post_id].updated_at

\* C12: no post is stored at the start, and every step leaves every stored
\* post with title, content, excerpt and author non-blank and equal to
\* their trimmed value; a create with a blank title, content,
\* excerpt or author, and an author's update giving a blank title, content
\* or excerpt, fail with the validation error (ValueError).
C12_FieldsNonBlankTrimmed ==
  [][/\ \A i \in PostIds :
          posts'[i] # Absent =>
            /\ NonBlank(posts'[i].title) /\ Trimmed(posts'[i].title)
            /\ NonBlank(posts'[i].content) /\ Trimmed(posts'[i].content)
            /\ NonBlank(posts'[i].excerpt) /\ Trimmed(posts'[i].excerpt)
            /\ NonBlank(posts'[i].author) /\ Trimmed(posts'[i].author)
     /\ last'.op = "create_post" =>
          \A in \in CreateInputs, t \in Reads(now) :
            (/\ \/ IsBlank(in[1]) \/ IsBlank(in[2]) \/ IsBlank(in[3])
                \/ IsBlank(last'.user_id)
             /\ CreatePost(in[1], in[2], in[3], last'.user_id, last'.status, t))
              => (last'.result = "ValueError" /\ posts' = posts)
     /\ last'.op = "update_post" =>
          \A i \in {last'.post_id}, in \in UpdateInputs, t \in Reads(now) :
            (/\ posts[i] # Absent
             /\ \E k \in 1..3 : in[k] # NoText /\ IsBlank(in[k])
             /\ UpdatePost(i, posts[i].author, in[1], in[2], in[3], t))
              => last'.result = "ValueError"
    ]_vars

C12_Witness ==
  /\ last.op = "update_post" /\ last.result = "ValueError"
  /\ posts[last.post_id] # Absent
  /\ posts[last.post_id].title = <<"b">>
  /\ posts[last.post_id].author = <<"u", "1">>
  /\ posts[last.post_id].content = <<"c">>

\* The pages 1..n of find_published, one after the other.
RECURSIVE pages_upto(_, _, _, _)
pages_upto(repo, n, limit, author) ==
  IF n = 0 THEN <<>>
  ELSE pages_upto(repo, n - 1, limit, author) \o find_published(repo, n, limit, author)

\* The ids of the Published posts of the repository (of the author, when one is given).
PublishedIds(repo, author) ==
  {i \in DOMAIN repo : /\ repo[i] # Absent
                       /\ repo[i].status = PUBLISHED
                       /\ (Truthy(author) => repo[i].author = author)}

\* C13: whatever page, limit >= 1 and author filter find_published is asked
\* with, the pages 1, 2, 3, ... for that limit and filter share no post, and
\* put one after the other they hold each Published post (of the author,
\* when one is given) once, as stored, no Draft post, in descending
\* published_at order; the page returned is its window of that list, no
\* page is longer than the limit and nothing follows the pages that cover
\* the posts.
C13_PagesPartitionPublished ==
  [][reply'.op = "find_published" =>
       \A all \in {pages_upto(posts, MaxListed, reply'.limit, reply'.author)} :
         /\ \A k \in 1..Len(all) : all[k] = posts[all[k].id] /\ all[k].status = PUBLISHED
         /\ \A k, l \in 1..Len(all) : k # l => all[k].id # all[l].id
         /\ {all[k].id : k \in 1..Len(all)} = PublishedIds(posts, reply'.author)
         /\ \A k, l \in 1..Len(all) : k < l => all[k].published_at >= all[l].published_at
         /\ reply'.data = SubSeq(all, (reply'.page - 1) * reply'.limit + 1,
                                 IF reply'.page * reply'.limit < Len(all)
                                 THEN reply'.page * reply'.limit ELSE Len(all))
         /\ Len(reply'.data) <= reply'.limit
         /\ find_published(posts, MaxListed + 1, reply'.limit, reply'.author) = <<>>
    ]_vars

C13_Witness ==
  /\ reply.op = "find_published" /\ reply.page = 2 /\ reply.limit = 1 /\ reply.author = Author
  /\ Len(reply.data) = 1
  /\ Cardinality(PublishedIds(posts, NoText)) = 3
  /\ Cardinality(PublishedIds(posts, Author)) = 2
  /\ \E i, j \in PublishedIds(posts, Author) :
       /\ posts[i].published_at > posts[j].published_at
       /\ reply.data[1] = posts[j]

\* The number of posts a listing's filter matches.
Matching(r) ==
  IF r.op = "get_posts"
  THEN Cardinality(PublishedIds(posts, r.author))
  ELSE Cardinality({i \in DOMAIN posts : /\ posts[i] # Absent
                                         /\ posts[i].author = r.author
                                         /\ (r.status # NoStatus => posts[i].status = r.status)})

\* C14: the total of get_posts and get_user_posts is the number of posts
\* the filter matches, whatever the page and the limit, so that hasNext is
\* true exactly when matching posts remain beyond the page.
C14_TotalCountsMatching ==
  reply.op \in {"get_posts", "get_user_posts"} =>
    /\ reply.total = Matching(reply)
    /\ reply.hasNext = (reply.page * reply.limit < Matching(reply))

\* C15: get_published_posts and get_posts_by_author_with_pagination call the
\* repository with page >= 1 and 1 <= limit <= 50: a page below 1 becomes 1,
\* a limit outside [1,50] becomes 10, values in range pass unchanged, and
\* every input gets a list back.
C15_PageAndLimitClamped ==
  reply.op \in {"get_published_posts", "get_posts_by_author_with_pagination"} =>
    /\ reply.called.page >= 1
    /\ reply.called.limit >= 1 /\ reply.called.limit <= 50
    /\ reply.called.page = IF reply.page < 1 THEN 1 ELSE reply.page
    /\ reply.called.limit = IF reply.limit < 1 \/ reply.limit > 50 THEN 10 ELSE reply.limit
    /\ reply.data \in Seq({posts[i] : i \in DOMAIN posts})

C15_Witness ==
  /\ reply.op = "get_published_posts"
  /\ reply.page = 2 /\ reply.limit = 51
  /\ reply.called.page = 2 /\ reply.called.limit = 10
  /\ Cardinality(PublishedIds(posts, NoText)) = 3
  /\ reply.data = <<>>

\* The ids of the stored comments of a post.
CommentsOf(post_id) ==
  {i \in DOMAIN comments : comments[i] # Absent /\ comments[i].post_id = post_id}

C17_DeletedStaysGone ==
  [][/\ (last'.op = "delete_post" /\ last'.result = "ok") =>
          /\ ~get_post_by_id(posts', last'.post_id).ok
          /\ get_post_by_id(posts', last'.post_id).exc = "PostNotFoundError"
          /\ ~exists_by_id(posts', last'.post_id)
          /\ exists_by_id(posts, last'.post_id)
          /\ \A j \in DOMAIN posts : j # last'.post_id => posts'[j] = posts[j]
     /\ \A i \in DOMAIN posts :
          (~exists_by_id(posts, i) /\ exists_by_id(posts', i)) =>
            (last'.op = "create_post" /\ last'.result = "ok" /\ last'.post_id = i
             /\ posts'[i].id = i)
    ]_vars

C17_Witness ==
  /\ last.op = "delete_post" /\ last.result = "ok"
  /\ posts[last.post_id] = Absent
  /\ ~get_post_by_id(posts, last.post_id).ok
  /\ \E j \in DOMAIN posts : j # last.post_id /\ posts[j] # Absent

SavingCalls == {"create_post", "update_post", "publish_post"}

\* The post as the entity operation of the step left it, before the save.
Handed(i) ==
  IF last'.op = "publish_post" THEN publish(posts[i], now, now).post
  ELSE IF last'.op = "update_post"
       THEN update_content(posts[i], <<" ", "b">>, NoText, NoText, now).post
  ELSE create_new(i, <<"a">>, <<"c">>, <<"e">>, last'.user_id, last'.status, now).post

\* C18: a successful create, update or publish ends with a save;
\* after it find_by_id of the post's id returns the post with the field
\* values it was handed over with, stored under its own id only, every
\* entry with another id is as it was, and updated_at is the time of the
\* save, not earlier than the post's previous updated_at.
C18_SaveIsUpsert ==
  [][(last'.op \in SavingCalls /\ last'.result = "ok") =>
       LET i == last'.post_id
           found == find_by_id(posts', i)
       IN  /\ found # Absent
           /\ found = [Handed(i) EXCEPT !.updated_at = now']
           /\ {j \in DOMAIN posts' : posts'[j] # Absent /\ posts'[j].id = i} = {i}
           /\ \A j \in DOMAIN posts : j # i => posts'[j] = posts[j]
           /\ found.updated_at = now'
           /\ found.updated_at >= Handed(i).updated_at
           /\ posts[i] # Absent => found.updated_at >= posts[i].updated_at
    ]_vars

C18_Witness ==
  /\ last.op = "publish_post" /\ last.result = "ok"
  /\ posts[last.post_id] # Absent
  /\ posts[last.post_id].updated_at > posts[last.post_id].published_at
  /\ posts[last.post_id].published_at > posts[last.post_id].created_at
  /\ \E j \in DOMAIN posts : j # last.post_id /\ posts[j] # Absent

\* The user's favorited ids, latest first, without the ids whose post is gone.
ExistingFavorites(user_id) ==
  SelectSeq(reversed(favorites[user_id]), LAMBDA id : posts[id] # Absent)

\* C19: get_user_favorites returns the window (page-1)*limit .. +limit of
\* the user's favorited ids in reverse insertion order without the ids whose
\* post no longer exists, so a deleted post never shortens a page while later
\* existing favorites remain.
C19_PagesOfExistingFavorites ==
  reply.op = "get_user_favorites" =>
    LET window == slice(ExistingFavorites(reply.user_id),
                        (reply.page - 1) * reply.limit,
                        (reply.page - 1) * reply.limit + reply.limit)
    IN  /\ Len(reply.data) = Len(window)
        /\ \A k \in 1..Len(window) : reply.data[k] = posts[window[k]]

\* C20: add_favorite for a post that is not stored fails with NotFoundError
\* and leaves the favorites as they were; for a stored post it succeeds, the
\* pair is in the relation afterwards and no other pair has come or gone.
C20_AddFavoriteNeedsPost ==
  [][reply'.op = "add_favorite" =>
       IF posts[reply'.post_id] = Absent
       THEN reply'.result = "NotFoundError" /\ favorites' = favorites
       ELSE /\ reply'.result = "ok"
            /\ reply'.post_id \in favorite_set(favorites', reply'.user_id)
            /\ \A u \in Users :
                 favorite_set(favorites', u) =
                   favorite_set(favorites, u) \cup
                     (IF u = reply'.user_id THEN {reply'.post_id} ELSE {})
    ]_vars

C20_Witness ==
  /\ reply.op = "add_favorite" /\ reply.result = "NotFoundError"
  /\ posts[reply.post_id] = Absent
  /\ \E u \in Users : favorite_set(favorites, u) # {}
  /\ reply.post_id \notin favorite_set(favorites, reply.user_id)

\* The favorite relation: the (user, post) pairs that are stored.
FavoritePairs(data) == {pair \in Users \X (1..MaxFavPosts) : pair[2] \in favorite_set(data, pair[1])}

\* C21: the favorite relation is a set of pairs.  A successful add_favorite
\* leaves the relation with the pair added, and the same call once more
\* leaves it as it is; remove_favorite always succeeds, whether the pair is
\* favorited or not, leaves the relation without the pair and every other
\* pair as it was, and the same call once more leaves it as it is.
C21_FavoritesAreASet ==
  [][/\ (reply'.op = "add_favorite" /\ reply'.result = "ok") =>
          LET pair == <<reply'.user_id, reply'.post_id>>
          IN  /\ FavoritePairs(favorites') = FavoritePairs(favorites) \cup {pair}
              /\ add_favorite(favorites', pair[1], pair[2]) = favorites'
     /\ reply'.op = "remove_favorite" =>
          LET pair == <<reply'.user_id, reply'.post_id>>
          IN  /\ reply'.result = "ok"
              /\ FavoritePairs(favorites') = FavoritePairs(favorites) \ {pair}
              /\ remove_favorite(favorites', pair[1], pair[2]) = favorites'
     /\ \A user_id \in Users, post_id \in 1..MaxFavPosts :
          /\ ENABLED RemoveFavorite(user_id, post_id) <=> reply = NoReply
          /\ (RemoveFavorite(user_id, post_id) /\ post_id \notin favorite_set(favorites, user_id))
               => favorites' = favorites
          /\ (AddFavorite(user_id, post_id) /\ post_id \in favorite_set(favorites, user_id))
               => favorites' = favorites
    ]_vars

\* a removal has just left other pairs of the same user and of another user
\* in the relation
C21_Witness ==
  /\ reply.op = "remove_favorite" /\ reply.result = "ok"
  /\ <<reply.user_id, reply.post_id>> \notin FavoritePairs(favorites)
  /\ favorite_set(favorites, reply.user_id) # {}
  /\ \E u \in Users \ {reply.user_id} : reply.post_id \in favorite_set(favorites, u)
  /\ posts[reply.post_id] = Absent

\* C22: promote_to_authenticated, called directly or by
\* handle_user_promotion, succeeds only on a user with is_anonymous = true,
\* and a direct call only with a non-blank email and display name; a
\* promoted user stays promoted in every later state; a promote call on a
\* promoted user fails, and a failed call leaves the stored users as they
\* were; no step changes the firebase_uid of a stored user.
C22_PromotedOnce ==
  [][/\ (reply = NoReply /\ reply'.op = "promote_to_authenticated") =>
          /\ reply'.result = "ok" =>
                /\ users[reply'.uid].is_anonymous
                /\ ~Empty(reply'.email) /\ ~Empty(reply'.display_name)
                /\ ~users'[reply'.uid].is_anonymous
          /\ ~users[reply'.uid].is_anonymous => reply'.result = "UserValidationError"
          /\ reply'.result # "ok" => users' = users
     /\ (reply = NoReply /\ reply'.op = "handle_user_promotion" /\ users[reply'.uid] # Absent) =>
          /\ reply'.result = "ok" =>
                /\ users[reply'.uid].is_anonymous
                /\ ~Empty(reply'.email)
                /\ ~users'[reply'.uid].is_anonymous
          /\ ~users[reply'.uid].is_anonymous => reply'.result # "ok"
          /\ reply'.result # "ok" => users' = users
     /\ \A uid \in Users :
          users[uid] # Absent =>
            /\ users'[uid] # Absent
            /\ users'[uid].firebase_uid = users[uid].firebase_uid
            /\ users[uid].firebase_uid = uid
            /\ ~users[uid].is_anonymous => ~users'[uid].is_anonymous
    ]_vars

\* a promote call has just failed on a user promoted earlier
C22_Witness ==
  /\ reply.op = "promote_to_authenticated" /\ reply.result = "UserValidationError"
  /\ ~Empty(reply.email) /\ ~Empty(reply.display_name)
  /\ users[reply.uid] # Absent
  /\ ~users[reply.uid].is_anonymous
  /\ users[reply.uid].email = <<"a", "@", "b">>
  /\ users[reply.uid].updated_at < now

\* What may leave an application service: success or one application error.
ApplicationOutcomes == {"ok", "ValidationError", "NotFoundError", "ForbiddenError",
                        "AuthenticationError", "ApplicationError"}

\* C23 as claimed: every operation of the post and comment application
\* services ends in success or in one of the application errors; no domain
\* exception and no raw repository exception leaves the service.
C23_OnlyApplicationErrors ==
  /\ last # NoCall => TranslatePostError(last.op, last.result) \in ApplicationOutcomes
  /\ raised # "none" => raised \in ApplicationOutcomes
  /\ reply # NoReply => reply.result \in ApplicationOutcomes

\* C24 as claimed: a call of find_by_id, exists_by_id, delete or a listing
\* during which the storage fails raises an error; absence (None, False, an
\* empty list) is answered only for what is really missing.
C24_StorageFailuresSurface ==
  (reply # NoReply /\ reply.op \in StoreReads \cup {"delete"}) =>
    /\ ~reply.storage_ok => reply.raised # "none"
    /\ (reply.op = "find_by_id" /\ reply.raised = "none" /\ reply.value = Absent) =>
         (IF reply.repo = "posts" THEN posts[reply.id] ELSE comments[reply.id]) = Absent
    /\ (reply.op = "exists_by_id" /\ reply.raised = "none" /\ reply.value = FALSE) =>
         (IF reply.repo = "posts" THEN posts[reply.id] ELSE comments[reply.id]) = Absent

\* C25: add_connection leaves its connection id a member and
\* remove_connection leaves it a non-member, whether or not it was one
\* before (adding a member and removing a non-member change nothing), and
\* neither changes the membership of any other connection id.
C25_MembershipIdempotent ==
  [][\A c \in ConnIds :
       /\ Connect(c) =>
            /\ c \in connections'
            /\ \A d \in ConnIds \ {c} : (d \in connections') <=> (d \in connections)
            /\ c \in connections => connections' = connections
       /\ Disconnect(c) =>
            /\ c \notin connections'
            /\ \A d \in ConnIds \ {c} : (d \in connections') <=> (d \in connections)
            /\ c \notin connections => connections' = connections
    ]_vars

\* During one broadcast a member has been removed and a non-member added,
\* and the other members are where they were.
C25_Witness ==
  /\ pc = "sending" /\ interfered = 2
  /\ \E a, r \in ConnIds :
       /\ a # r
       /\ a \notin startMembers /\ a \in connections
       /\ r \in startMembers /\ r \notin connections
       /\ connections \ {a} = startMembers \ {r}
       /\ connections \ {a} # {}

\* C26 as claimed: a broadcast that add_connection / remove_connection
\* interleave with while it is suspended on a send never aborts; when it
\* ends it has attempted every connection that was a member at its start
\* and still is, and its ending takes out of the set only connections whose
\* attempt failed and puts nothing back (what was added meanwhile stays,
\* what was removed meanwhile stays removed).
C26_SafeUnderConcurrentChange ==
  [][/\ raised' # "RuntimeError"
     /\ (pc = "sending" /\ pc' = "responded") =>
          /\ \A c \in startMembers \cap connections : attempts'[c] >= 1
          /\ connections' \subseteq connections
          /\ \A c \in connections \ connections' :
               outcomes'[c] \cap {"gone", "error"} # {}
    ]_vars

\* C27 as claimed: on the step create_comment saves its comment, the parent
\* post is in the post repository, also when a delete_post of that post has
\* run between create_comment's existence check and the save.
C27_ParentExistsAtSave ==
  [][(pc = "checked" /\ persisted' # 0) =>
       /\ exists_by_id(posts, request.post_id)
       /\ exists_by_id(posts', comments'[persisted'].post_id)
    ]_vars

\* C28 as claimed: an update_post, publish_post or unpublish_post that found
\* the post before a delete_post of it returned does not bring the post
\* back: if the post is absent when the call saves, it is absent afterwards.
C28_SaveDoesNotRecreate ==
  [][(writer # NoWriter /\ writer' = NoWriter /\ ~exists_by_id(posts, writer.post_id)) =>
       ~exists_by_id(posts', writer.post_id)
    ]_vars

\* C29 as claimed: an update_post that ends with a validation error leaves
\* the repository as it was: every field of every stored post, updated_at
\* included, is what it was before the call.
C29_FailedUpdateChangesNothing ==
  [][(last'.op = "update_post" /\ last'.result = "ValueError") => posts' = posts]_vars

\* C30 as claimed: every handle_anonymous_login call of an anonymous
\* identity ends in success with the user entity of its uid in the table,
\* whatever other calls for the same uid run before it or overlap with it.
C30_LoginAlwaysSucceeds ==
  \A c \in Callers :
    logins[c].at = "done" =>
      /\ logins[c].result = "ok"
      /\ users[logins[c].uid] # Absent

====
